---------------------------- MODULE Spec2Model ----------------------------
(***************************************************************************)
(* Model of the 3D spatial view (src/src/components/SpatialViewBabylon.tsx) *)
(*                                                                         *)
(* Fixed-point conventions (TLC has no reals):                             *)
(*   lengths      in tenths of a metre    (0.1 m  = 1,  2.8 m = 28)        *)
(*   colour       channels in 1/300       (0.2 = 60, 1.0 = 300)            *)
(*   alpha        in hundredths           (0.25 = 25, 1.0 = 100)           *)
(*   confidence   in hundredths           (0.8 = 80)                       *)
(* Every palette colour is a multiple of 30/300, so the gray average       *)
(* (r+g+b)/3, the 0.7 interpolation and the 0.8 scaling are exact.         *)
(***************************************************************************)
EXTENDS Integers, Sequences, FiniteSets, TLC

VARIABLES
    \* ---- metric colour engine, exercised on its own (SpecColor)
    cpc,            \* "input" | "classified" | "applied"
    rdMetric,       \* metric name of the reading being coloured
    rdValue,        \* value of the reading
    rdConfidence,   \* confidence of the reading (hundredths)
    rdThresholds,   \* threshold entry looked up by getStateColor
    rdColor,        \* colour returned by getStateColor (NoColor before)
    rdMaterial,     \* the StandardMaterial the modifier mutates
    \* ---- floor stacking of a layout pass, exercised on its own (SpecStack)
    spc,            \* "input" | "built"
    stFloors,       \* the ordered floor list given to the pass
    stElevations,   \* floorElevation computed for each floor, in order
    stMeshes,       \* meshes the pass created, in creation order
    stTotalHeight,  \* totalHeight of lines 407-424
    stCamera,       \* target of the ArcRotateCamera, lines 428-436 (y doubled)
    \* ---- the mounted component (Spec)
    mounted,              \* the component instance exists
    walls,                \* prop: wall segments
    spatialModel,         \* prop: Absent or Some(model)
    selectedFloorId,      \* prop
    selectedViewFloorId,  \* useState('')
    selectedMetric,       \* useState('CO2')
    timeIndex,            \* useState(0)
    isPlaying,            \* useState(false)
    pendingView,          \* queued setSelectedViewFloorId, Absent or Some(id)
    pendingTime,          \* queued setTimeIndex from an effect, Absent or Some(t)
    playIntervalRef,      \* 0 for null, else the handle of setInterval
    activeTimers,         \* handles of the interval timers not yet cleared
    sceneRef,             \* "null" | "live" | "disposed"
    layoutCleanup,        \* the layout effect has a cleanup registered
    floorRootsRef,        \* floor id -> [enabled]
    zoneMeshesRef,        \* floor id -> names of the floor's meshes
    floorMeshesRef,       \* names of zone, slab and ground meshes
    wallMeshesRef,        \* names of wall meshes
    meshes,               \* name -> mesh, the meshes not disposed
    \* ---- framing and vertex data of a layout pass, on their own (SpecGeometry)
    gpc,            \* "input" | "framed" | "built" | "walled"
    geoWalls,       \* wall segments given to the pass
    geoFloors,      \* floor list given to the pass
    geoBounds,      \* bounds of lines 379-398, in pixels
    geoOffset,      \* offsetX and offsetZ of lines 403-404
    geoMaxDim,      \* maxDim of line 405
    geoMeshes       \* vertex data of the zone meshes, in creation order

colorVars == <<cpc, rdMetric, rdValue, rdConfidence, rdThresholds, rdColor, rdMaterial>>

stackVars == <<spc, stFloors, stElevations, stMeshes, stTotalHeight, stCamera>>

compVars == <<mounted, walls, spatialModel, selectedFloorId, selectedViewFloorId,
              selectedMetric, timeIndex, isPlaying, pendingView, pendingTime,
              playIntervalRef, activeTimers, sceneRef, layoutCleanup, floorRootsRef,
              zoneMeshesRef, floorMeshesRef, wallMeshesRef, meshes>>

geoVars == <<gpc, geoWalls, geoFloors, geoBounds, geoOffset, geoMaxDim, geoMeshes>>

----------------------------------------------------------------------------
(* Small helpers *)

Max(a, b) == IF a >= b THEN a ELSE b

Min(a, b) == IF a <= b THEN a ELSE b

Range(s) == {s[i] : i \in DOMAIN s}

\* An optional value (heightOverride?: number) is <<>> when absent, <<v>> when set
Absent == <<>>

Some(v) == <<v>>

----------------------------------------------------------------------------
(* Module constants, lines 28-30 *)

WALL_HEIGHT == 30

FLOOR_THICKNESS == 1

----------------------------------------------------------------------------
(* 4.1  Threshold table, lines 40-44 *)

METRIC_THRESHOLDS_NotAscending ==
    [ CO2  |-> [green |-> 800, yellow |-> 800,  orange |-> 1200, red |-> 1200],
      TVOC |-> [green |-> 200, yellow |-> 300,  orange |-> 400,  red |-> 400],
      PM25 |-> [green |-> 10,  yellow |-> 20,   orange |-> 30,   red |-> 30] ]

METRIC_THRESHOLDS ==
    [ CO2  |-> [green |-> 800, yellow |-> 1000, orange |-> 1200, red |-> 1200],
      TVOC |-> [green |-> 200, yellow |-> 300,  orange |-> 400,  red |-> 400],
      PM25 |-> [green |-> 10,  yellow |-> 20,   orange |-> 30,   red |-> 30] ]

\* METRIC_THRESHOLDS is an object literal (line 40), so the property read
\* METRIC_THRESHOLDS[metric] also finds the members every object inherits
\* from Object.prototype; two of their names stand for all of them.
InheritedNames == {"constructor", "toString"}

\* What the read finds for an inherited name: a function object, which is
\* truthy and has no green, yellow, orange or red property
InheritedMember(metric) == [name |-> metric]

\* METRIC_THRESHOLDS[metric] || METRIC_THRESHOLDS.CO2   (lines 48, 94, 110)
ThresholdsFor(metric) ==
    IF metric \in DOMAIN METRIC_THRESHOLDS
    THEN METRIC_THRESHOLDS[metric]
    ELSE IF metric \in InheritedNames
    THEN InheritedMember(metric)
    ELSE METRIC_THRESHOLDS.CO2

\* value < thresholds.field: false when the property is undefined
LessThan(value, thresholds, field) ==
    field \in DOMAIN thresholds /\ value < thresholds[field]

----------------------------------------------------------------------------
(* Colours and materials *)

Color3(r, g, b) == <<r, g, b>>

ColorGreen  == Color3(60, 240, 90)      \* new Color3(0.2, 0.8, 0.3)

ColorYellow == Color3(270, 270, 60)     \* new Color3(0.9, 0.9, 0.2)

ColorOrange == Color3(300, 180, 60)     \* new Color3(1.0, 0.6, 0.2)

ColorRed    == Color3(270, 60, 60)      \* new Color3(0.9, 0.2, 0.2)

ColorBlack  == Color3(0, 0, 0)

ColorWhite  == Color3(300, 300, 300)

NoColor == <<>>

\* Color3.Lerp(start, end, amount) = start + (end - start) * amount,
\* amount given in tenths
Lerp(start, end, tenths) ==
    [i \in 1..3 |-> start[i] + ((end[i] - start[i]) * tenths) \div 10]

\* new StandardMaterial(name, scene): Babylon's defaults
NewStandardMaterial ==
    [ diffuseColor    |-> ColorWhite,
      emissiveColor   |-> ColorBlack,
      alpha           |-> 100,
      backFaceCulling |-> TRUE ]

\* 4.2  getStateColor, lines 47-59
getStateColor_InclusiveBounds(metric, value) ==
    LET thresholds == ThresholdsFor(metric) IN
    IF value <= thresholds.green THEN ColorGreen
    ELSE IF value <= thresholds.yellow THEN ColorYellow
    ELSE IF value <= thresholds.orange THEN ColorOrange
    ELSE ColorRed

getStateColor(metric, value) ==
    LET thresholds == ThresholdsFor(metric) IN
    IF LessThan(value, thresholds, "green") THEN ColorGreen
    ELSE IF LessThan(value, thresholds, "yellow") THEN ColorYellow
    ELSE IF LessThan(value, thresholds, "orange") THEN ColorOrange
    ELSE ColorRed

\* 4.3  applyConfidenceModifier, lines 62-83 (returns the mutated material)
applyConfidenceModifier_StrictBounds(baseColor, confidence, material) ==
    LET gray == (baseColor[1] + baseColor[2] + baseColor[3]) \div 3 IN
    IF confidence > 80 THEN
        [material EXCEPT !.diffuseColor = baseColor, !.alpha = 90]
    ELSE IF confidence > 60 THEN
        [material EXCEPT
            !.diffuseColor = Lerp(Color3(gray, gray, gray), baseColor, 7),
            !.alpha = 75]
    ELSE
        [material EXCEPT
            !.diffuseColor = Color3((gray * 8) \div 10, (gray * 8) \div 10, (gray * 8) \div 10),
            !.alpha = 55,
            !.emissiveColor = Color3(90, 90, 90)]

applyConfidenceModifier(baseColor, confidence, material) ==
    LET gray == (baseColor[1] + baseColor[2] + baseColor[3]) \div 3 IN
    IF confidence >= 80 THEN
        [material EXCEPT !.diffuseColor = baseColor, !.alpha = 90]
    ELSE IF confidence >= 60 THEN
        [material EXCEPT
            !.diffuseColor = Lerp(Color3(gray, gray, gray), baseColor, 7),
            !.alpha = 75]
    ELSE
        [material EXCEPT
            !.diffuseColor = Color3((gray * 8) \div 10, (gray * 8) \div 10, (gray * 8) \div 10),
            !.alpha = 55,
            !.emissiveColor = Color3(90, 90, 90)]

----------------------------------------------------------------------------
(* SpecColor: the colour engine applied to readings drawn from bounded sets. *)
(* One material is re-used across readings, as updateZoneMaterials does.     *)

\* Metric names offered to the engine: the three table entries and one
\* name that has no entry.
MetricNames == {"CO2", "TVOC", "PM25", "NOX"}

\* Values around every breakpoint of every table entry, 0, and the top of
\* the simulated range (1.5 x red).
BreakPoints ==
    UNION { {METRIC_THRESHOLDS[m].green, METRIC_THRESHOLDS[m].yellow,
             METRIC_THRESHOLDS[m].orange, METRIC_THRESHOLDS[m].red}
            : m \in DOMAIN METRIC_THRESHOLDS }

ReadingValues ==
    {0} \cup UNION { {b - 1, b, b + 1} : b \in BreakPoints }
        \cup { (3 * METRIC_THRESHOLDS[m].red) \div 2 : m \in DOMAIN METRIC_THRESHOLDS }

\* Confidences on both sides of, and exactly at, 0.6 and 0.8
ReadingConfidences == {0, 50, 59, 60, 61, 79, 80, 81, 100}

ColorInit ==
    /\ cpc = "input"
    /\ rdMetric \in MetricNames
    /\ rdValue \in ReadingValues
    /\ rdConfidence \in ReadingConfidences
    /\ rdThresholds = <<>>
    /\ rdColor = NoColor
    /\ rdMaterial = NewStandardMaterial

\* const stateColor = getStateColor(metric, metricData.value)   (line 647)
Classify ==
    /\ cpc = "input"
    /\ rdThresholds' = ThresholdsFor(rdMetric)
    /\ rdColor' = getStateColor(rdMetric, rdValue)
    /\ cpc' = "classified"
    /\ UNCHANGED <<rdMetric, rdValue, rdConfidence, rdMaterial>>
    /\ UNCHANGED <<stackVars, compVars, geoVars>>

\* applyConfidenceModifier(stateColor, metricData.confidence, material)  (line 649)
ApplyConfidence ==
    /\ cpc = "classified"
    /\ rdMaterial' = applyConfidenceModifier(rdColor, rdConfidence, rdMaterial)
    /\ cpc' = "applied"
    /\ UNCHANGED <<rdMetric, rdValue, rdConfidence, rdThresholds, rdColor>>
    /\ UNCHANGED <<stackVars, compVars, geoVars>>

\* The next reading for the same material (a later update of the same zone)
NextReading ==
    /\ cpc = "applied"
    /\ rdMetric' \in MetricNames
    /\ rdValue' \in ReadingValues
    /\ rdConfidence' \in ReadingConfidences
    /\ cpc' = "input"
    /\ UNCHANGED <<rdThresholds, rdColor, rdMaterial>>
    /\ UNCHANGED <<stackVars, compVars, geoVars>>

\* SpecLookup: the engine given metric names that have no entry of their
\* own in the table, a plain one and the inherited ones
UnknownNames == {"NOX"} \cup InheritedNames

LookupInit ==
    /\ cpc = "input"
    /\ rdMetric \in UnknownNames
    /\ rdValue \in ReadingValues
    /\ rdConfidence \in ReadingConfidences
    /\ rdThresholds = <<>>
    /\ rdColor = NoColor
    /\ rdMaterial = NewStandardMaterial

\* The next reading of an unknown metric for the same material
NextUnknownReading ==
    /\ cpc = "applied"
    /\ rdMetric' \in UnknownNames
    /\ rdValue' \in ReadingValues
    /\ rdConfidence' \in ReadingConfidences
    /\ cpc' = "input"
    /\ UNCHANGED <<rdThresholds, rdColor, rdMaterial>>
    /\ UNCHANGED <<stackVars, compVars, geoVars>>

----------------------------------------------------------------------------
(* Data model (src/unnamed/part_002): Floor and Zone as records.           *)
(*   zone  = [id, polygon2D, heightOverride, timeseries]                   *)
(*   floor = [id, elevation, defaultHeight, zones]                         *)
(* timeseries is a function from the metric names it records to sequences  *)
(* of [value, confidence]; index t of the code is position t + 1 here.     *)

\* getZoneMetricValueAtTime, lines 86-117.  rnd stands for the reading built
\* from the two Math.random() draws; it is chosen by the caller.
getZoneMetricValueAtTime(zone, metric, t, useRandomValues, rnd) ==
    IF useRandomValues THEN rnd
    ELSE IF \/ metric \notin DOMAIN zone.timeseries
            \/ t < 0
            \/ t >= Len(zone.timeseries[metric])
         THEN rnd
         ELSE zone.timeseries[metric][t + 1]

----------------------------------------------------------------------------
(* Layout pass: floor stacking and per-zone meshes, lines 449-542 *)

\* floorElevation of the floor at (1-based) floorIndex, given the
\* cumulativeElevation left by the previous iteration, lines 456-465.
\* Both branches leave cumulativeElevation equal to the value returned.
floorElevationAt_OwnHeight(floors, floorIndex, cumulativeElevation) ==
    IF floorIndex = 1 THEN floors[1].elevation
    ELSE Max(floors[floorIndex].elevation,
             cumulativeElevation + FLOOR_THICKNESS + floors[floorIndex].defaultHeight)

floorElevationAt_NoMax(floors, floorIndex, cumulativeElevation) ==
    IF floorIndex = 1 THEN floors[1].elevation
    ELSE IF floors[floorIndex].elevation # 0
         THEN floors[floorIndex].elevation
         ELSE cumulativeElevation + FLOOR_THICKNESS + floors[floorIndex - 1].defaultHeight

floorElevationAt(floors, floorIndex, cumulativeElevation) ==
    IF floorIndex = 1 THEN floors[1].elevation
    ELSE LET previousFloor == floors[floorIndex - 1] IN
         Max(floors[floorIndex].elevation,
             cumulativeElevation + FLOOR_THICKNESS + previousFloor.defaultHeight)

\* The floorElevation of the first n floors, in order: the forEach of line 454
\* with cumulativeElevation (initially 0, line 451) threaded through.
RECURSIVE StackElevations(_, _)
StackElevations(floors, n) ==
    IF n = 0 THEN <<>>
    ELSE LET before == StackElevations(floors, n - 1)
             cumulativeElevation == IF n = 1 THEN 0 ELSE before[n - 1]
         IN  Append(before, floorElevationAt(floors, n, cumulativeElevation))

\* const zoneHeight = zone.heightOverride || floor.defaultHeight   (line 479)
\* (|| takes the right operand when the left is undefined or 0)
zoneHeightOf(zone, floor) ==
    IF zone.heightOverride = Absent \/ zone.heightOverride[1] = 0
    THEN floor.defaultHeight
    ELSE zone.heightOverride[1]

\* createExtrudedZone, lines 174-259: the local vertices lie at -height/2 and
\* +height/2 and the mesh is positioned at y = elevation + height/2.  The
\* world-space vertical span is computed in half units to stay integral.
createExtrudedZone(name, zone, floor, height) ==
    LET position2 == 2 * floor.elevation + height
    IN  [ name     |-> name,
          yMin     |-> (position2 - height) \div 2,
          yMax     |-> (position2 + height) \div 2,
          enabled  |-> TRUE,
          material |-> NewStandardMaterial ]

\* createFloorFromZone, lines 262-333: vertices at elevation and at
\* elevation + FLOOR_THICKNESS, mesh left at the origin.
createFloorFromZone(name, zone, floor) ==
    [ name     |-> name,
      yMin     |-> floor.elevation,
      yMax     |-> floor.elevation + FLOOR_THICKNESS,
      enabled  |-> TRUE,
      material |-> NewStandardMaterial ]

\* Mesh names: `zone_extruded_${floor.id}_${zone.id}` and
\* `zone_floor_${floor.id}_${zone.id}` as <<prefix, floor id, zone id>>
ExtrudedName(floor, zone) == <<"zone_extruded_", floor.id, zone.id>>

FloorName(floor, zone) == <<"zone_floor_", floor.id, zone.id>>

\* Material given to a fresh extrusion, lines 496-509
initialZoneMaterial(zone, metric, t, rnd) ==
    LET metricData == getZoneMetricValueAtTime(zone, metric, t, FALSE, rnd)
        stateColor == getStateColor(metric, metricData.value)
    IN  applyConfidenceModifier(stateColor, metricData.confidence,
            [NewStandardMaterial EXCEPT !.backFaceCulling = FALSE])

\* Material given to a fresh slab, lines 526-529
floorMaterial ==
    [NewStandardMaterial EXCEPT !.diffuseColor = Color3(270, 270, 255), !.alpha = 100]

\* The meshes of one floor, in creation order: for every zone with at least
\* three points its extrusion then its slab, lines 476-538.  rnd maps
\* <<floor id, zone id>> to the reading generated for that zone when it has
\* no recorded one.
RECURSIVE buildZones_StopAtShort(_, _, _, _, _, _)
buildZones_StopAtShort(floor, floorElevation, k, metric, t, rnd) ==
    IF k = 0 THEN <<>>
    ELSE IF \E j \in 1..k : Len(floor.zones[j].polygon2D) < 3
    THEN buildZones_StopAtShort(floor, floorElevation, k - 1, metric, t, rnd)
    ELSE LET zone   == floor.zones[k]
             placed == [floor EXCEPT !.elevation = floorElevation]
         IN  buildZones_StopAtShort(floor, floorElevation, k - 1, metric, t, rnd) \o
             << [createExtrudedZone(ExtrudedName(floor, zone), zone, placed,
                                    zoneHeightOf(zone, floor))
                   EXCEPT !.material = initialZoneMaterial(zone, metric, t,
                                                            rnd[<<floor.id, zone.id>>])],
                [createFloorFromZone(FloorName(floor, zone), zone, placed)
                   EXCEPT !.material = floorMaterial] >>

RECURSIVE buildZones(_, _, _, _, _, _)
buildZones(floor, floorElevation, k, metric, t, rnd) ==
    IF k = 0 THEN <<>>
    ELSE LET before == buildZones(floor, floorElevation, k - 1, metric, t, rnd)
             zone   == floor.zones[k]
             placed == [floor EXCEPT !.elevation = floorElevation]
         IN  IF Len(zone.polygon2D) >= 3
             THEN before \o
                  << [createExtrudedZone(ExtrudedName(floor, zone), zone, placed,
                                         zoneHeightOf(zone, floor))
                        EXCEPT !.material = initialZoneMaterial(zone, metric, t,
                                                                 rnd[<<floor.id, zone.id>>])],
                     [createFloorFromZone(FloorName(floor, zone), zone, placed)
                        EXCEPT !.material = floorMaterial] >>
             ELSE before

buildFloor(floor, floorElevation, metric, t, rnd) ==
    buildZones(floor, floorElevation, Len(floor.zones), metric, t, rnd)

----------------------------------------------------------------------------
(* SpecStack: one layout pass over floor lists drawn from bounded sets. *)

MaxFloors == 3

\* Nominal elevations: a basement, ground level, and one above the
\* automatic stacking of a first storey
StackElevationChoices == {-10, 0, 40}

StackHeightChoices == {26, 28}

Rectangle == << [x |-> 0, y |-> 0], [x |-> 20, y |-> 0],
                [x |-> 20, y |-> 10], [x |-> 0, y |-> 10] >>

RecordedSeries == [CO2 |-> << [value |-> 700, confidence |-> 90] >>]

\* No zone, or one rectangular zone whose heightOverride is absent, 0,
\* or 3.2 m (above both default heights)
StackZoneChoices ==
    { <<>> } \cup
    { << [id |-> "z1", polygon2D |-> Rectangle, heightOverride |-> h,
          timeseries |-> RecordedSeries] >> : h \in {Absent, Some(0), Some(32)} }

FloorIds == <<"floor-1", "floor-2", "floor-3", "floor-4", "floor-5">>

FloorId(i) == FloorIds[i]

StackFloorLists ==
    UNION { [1..n -> [elevation : StackElevationChoices,
                      defaultHeight : StackHeightChoices,
                      zones : StackZoneChoices]] : n \in 0..MaxFloors }

WithIds(fl) ==
    [i \in DOMAIN fl |->
        [id |-> FloorId(i), elevation |-> fl[i].elevation,
         defaultHeight |-> fl[i].defaultHeight, zones |-> fl[i].zones]]

NoRandom ==
    [k \in {<<FloorId(i), "z1">> : i \in 1..Len(FloorIds)} |-> [value |-> 0, confidence |-> 100]]

\* All meshes of the first n floors, in creation order
RECURSIVE buildFloors(_, _, _, _, _, _)
buildFloors(floors, elevations, n, metric, t, rnd) ==
    IF n = 0 THEN <<>>
    ELSE buildFloors(floors, elevations, n - 1, metric, t, rnd)
         \o buildFloor(floors[n], elevations[n], metric, t, rnd)

\* cumulativeElevation after the first n iterations of the totalHeight
\* loop, lines 410-419 (0 before the first, line 409)
RECURSIVE cumulativeElevationAt_NoMax(_, _)
cumulativeElevationAt_NoMax(floors, n) ==
    IF n = 0 THEN 0
    ELSE IF n = 1 THEN floors[1].elevation
    ELSE cumulativeElevationAt_NoMax(floors, n - 1) + FLOOR_THICKNESS
         + floors[n - 1].defaultHeight

RECURSIVE cumulativeElevationAt(_, _)
cumulativeElevationAt(floors, n) ==
    IF n = 0 THEN 0
    ELSE IF n = 1 THEN floors[1].elevation
    ELSE Max(floors[n].elevation,
             cumulativeElevationAt(floors, n - 1) + FLOOR_THICKNESS
             + floors[n - 1].defaultHeight)

\* totalHeight, lines 407-424: the value the last iteration leaves
totalHeightOf(floors) ==
    IF Len(floors) > 0
    THEN cumulativeElevationAt(floors, Len(floors)) + FLOOR_THICKNESS
         + floors[Len(floors)].defaultHeight
    ELSE WALL_HEIGHT

\* new Vector3(0, totalHeight / 2, 0), lines 433 and 436, with y doubled
cameraTarget(totalHeight) == [x |-> 0, y2 |-> totalHeight, z |-> 0]

NoCamera == [x |-> 0, y2 |-> 0, z |-> 0]

StackInit ==
    /\ spc = "input"
    /\ stFloors \in {WithIds(fl) : fl \in StackFloorLists}
    /\ stElevations = <<>>
    /\ stMeshes = <<>>
    /\ stTotalHeight = 0
    /\ stCamera = NoCamera

\* The camera framing and the SpatialModel branch of the layout effect,
\* lines 407-436 and 449-542
StackLayout ==
    /\ spc = "input"
    /\ LET elevations == StackElevations(stFloors, Len(stFloors)) IN
        /\ stElevations' = elevations
        /\ stMeshes' = buildFloors(stFloors, elevations, Len(stFloors), "CO2", 0, NoRandom)
    /\ stTotalHeight' = totalHeightOf(stFloors)
    /\ stCamera' = cameraTarget(totalHeightOf(stFloors))
    /\ spc' = "built"
    /\ UNCHANGED stFloors
    /\ UNCHANGED <<colorVars, compVars, geoVars>>

\* Meshes of the floor at index i among the meshes built
MeshesOfFloor(built, i) ==
    {built[k] : k \in {j \in DOMAIN built : built[j].name[2] = FloorId(i)}}

----------------------------------------------------------------------------
(* The component: state, refs and effects of SpatialViewBabylon, lines 335-764. *)
(* An effect is an operator from the component's world (a record of all its     *)
(* variables) to the world it leaves.                                           *)

World ==
    [ mounted |-> mounted, walls |-> walls, spatialModel |-> spatialModel,
      selectedFloorId |-> selectedFloorId, selectedViewFloorId |-> selectedViewFloorId,
      selectedMetric |-> selectedMetric, timeIndex |-> timeIndex, isPlaying |-> isPlaying,
      pendingView |-> pendingView, pendingTime |-> pendingTime,
      playIntervalRef |-> playIntervalRef, activeTimers |-> activeTimers,
      sceneRef |-> sceneRef, layoutCleanup |-> layoutCleanup,
      floorRootsRef |-> floorRootsRef, zoneMeshesRef |-> zoneMeshesRef,
      floorMeshesRef |-> floorMeshesRef, wallMeshesRef |-> wallMeshesRef,
      meshes |-> meshes ]

Install(w) ==
    /\ mounted' = w.mounted
    /\ walls' = w.walls
    /\ spatialModel' = w.spatialModel
    /\ selectedFloorId' = w.selectedFloorId
    /\ selectedViewFloorId' = w.selectedViewFloorId
    /\ selectedMetric' = w.selectedMetric
    /\ timeIndex' = w.timeIndex
    /\ isPlaying' = w.isPlaying
    /\ pendingView' = w.pendingView
    /\ pendingTime' = w.pendingTime
    /\ playIntervalRef' = w.playIntervalRef
    /\ activeTimers' = w.activeTimers
    /\ sceneRef' = w.sceneRef
    /\ layoutCleanup' = w.layoutCleanup
    /\ floorRootsRef' = w.floorRootsRef
    /\ zoneMeshesRef' = w.zoneMeshesRef
    /\ floorMeshesRef' = w.floorMeshesRef
    /\ wallMeshesRef' = w.wallMeshesRef
    /\ meshes' = w.meshes
    /\ UNCHANGED <<colorVars, stackVars, geoVars>>

\* An empty Map, an empty scene
EmptyMap == <<>>

\* map.get(key) || []
GetOrEmpty(map, key) == IF key \in DOMAIN map THEN map[key] ELSE <<>>

\* spatialModel && spatialModel.building.floors.length > 0
HasFloors(model) == model # Absent /\ Len(model[1].floors) > 0

FloorsOf(model) == IF model = Absent THEN <<>> ELSE model[1].floors

NamesOf(built) == [i \in DOMAIN built |-> built[i].name]

ByName(built) == [n \in Range(NamesOf(built)) |->
                    built[CHOOSE i \in DOMAIN built : built[i].name = n]]

\* Handles window.setInterval may return
MaxTimers == 3

TimerIds == 1..MaxTimers

\* if (playIntervalRef.current !== null) { clearInterval(...); ... = null }
\* lines 608-611, 679-682, 696-699
clearPlayInterval_KeepTimer(w) ==
    IF w.playIntervalRef # 0
    THEN [w EXCEPT !.playIntervalRef = 0]
    ELSE w

clearPlayInterval(w) ==
    IF w.playIntervalRef # 0
    THEN [w EXCEPT !.activeTimers = @ \ {w.playIntervalRef}, !.playIntervalRef = 0]
    ELSE w

\* createWall, lines 139-171, with the vertical placement of line 570:
\* a box of the given height (or the 0.1 cube for a zero-length segment)
\* centred at y = floorElevation + FLOOR_THICKNESS + height / 2 (half units).
createWall(name, wall, floorElevation, height) ==
    LET dx == wall.end.x - wall.start.x
        dz == wall.end.y - wall.start.y
        box2 == IF dx = 0 /\ dz = 0 THEN 1 ELSE height   \* box height
        centre2 == 2 * (floorElevation + FLOOR_THICKNESS) + height
    IN  [ name     |-> name,
          yMin     |-> (centre2 - box2) \div 2,
          yMax     |-> (centre2 + box2) \div 2,
          enabled  |-> TRUE,
          material |-> [NewStandardMaterial EXCEPT !.diffuseColor = Color3(255, 255, 255)] ]

IndexNames == <<"0", "1", "2", "3">>

WallName(index) == <<"wall_", IndexNames[index], "">>

\* The ground plane of lines 582-594
GroundPlane ==
    [ name     |-> <<"floor", "", "">>,
      yMin     |-> 0,
      yMax     |-> 0,
      enabled  |-> TRUE,
      material |-> [NewStandardMaterial EXCEPT !.diffuseColor = Color3(270, 270, 270),
                                               !.alpha = 80] ]

\* map without the keys in names: mesh.dispose() for every mesh listed
Without(map, names) == [n \in (DOMAIN map) \ names |-> map[n]]

\* Cleanup of the layout effect, lines 605-624
LayoutCleanup_RegistriesKept(w) ==
    LET w1 == clearPlayInterval(w) IN
    [w1 EXCEPT !.wallMeshesRef = <<>>,
               !.floorMeshesRef = <<>>,
               !.meshes = EmptyMap,
               !.sceneRef = "disposed",
               !.layoutCleanup = FALSE]

LayoutCleanup(w) ==
    LET w1 == clearPlayInterval(w)
        listed == Range(w1.wallMeshesRef) \cup Range(w1.floorMeshesRef)
        w2 == [w1 EXCEPT !.meshes = Without(@, listed),        \* lines 612-615
                         !.wallMeshesRef = <<>>,
                         !.floorMeshesRef = <<>>,
                         !.floorRootsRef = EmptyMap,             \* line 616
                         !.zoneMeshesRef = EmptyMap]             \* line 617
    IN  [w2 EXCEPT !.meshes = EmptyMap,                         \* scene.dispose()
                   !.sceneRef = "disposed",
                   !.layoutCleanup = FALSE]

\* Start of the layout effect's body, lines 356-369: the scene of the
\* previous pass, if it is still live, and the meshes still listed are disposed
PreClean(w) ==
    LET afterScene == IF w.sceneRef = "live" THEN EmptyMap ELSE w.meshes
        listed == Range(w.wallMeshesRef) \cup Range(w.floorMeshesRef)
    IN  [w EXCEPT !.meshes = Without(afterScene, listed),
                  !.wallMeshesRef = <<>>,
                  !.floorMeshesRef = <<>>]

\* What a layout pass builds from, lines 354, 449 and 548
LayoutPath_WallsFirst(ws, model) ==
    IF Len(ws) > 0 THEN "walls"
    ELSE IF HasFloors(model) THEN "model"
    ELSE "none"

LayoutPath(ws, model) ==
    IF Len(ws) = 0 /\ ~HasFloors(model) THEN "none"
    ELSE IF HasFloors(model) THEN "model"
    ELSE IF Len(ws) > 0 THEN "walls"
    ELSE "empty"

\* Body of the layout effect, lines 351-604
LayoutBody(w, rnd) ==
    IF LayoutPath(w.walls, w.spatialModel) = "none"
    THEN [w EXCEPT !.layoutCleanup = FALSE]                       \* line 354
    ELSE
    LET wp == PreClean(w)
        floors == FloorsOf(w.spatialModel)
        elevations == StackElevations(floors, Len(floors))
        built == buildFloors(floors, elevations, Len(floors),
                             w.selectedMetric, w.timeIndex, rnd)
        currentFloors ==                                           \* lines 550-552
            IF w.spatialModel # Absent /\ w.selectedFloorId # ""
            THEN {i \in DOMAIN floors : floors[i].id = w.selectedFloorId}
            ELSE {}
        currentFloor == floors[CHOOSE i \in currentFloors : \A j \in currentFloors : i <= j]
        floorElevation == IF currentFloors # {} THEN currentFloor.elevation ELSE 0
        floorHeight == IF currentFloors # {} THEN currentFloor.defaultHeight ELSE WALL_HEIGHT
        wallsBuilt == [i \in DOMAIN w.walls |->
                         createWall(WallName(i), w.walls[i], floorElevation, floorHeight)]
    IN
    IF LayoutPath(w.walls, w.spatialModel) = "model"
    THEN                                                            \* lines 449-547
        [wp EXCEPT
            !.sceneRef = "live",
            !.floorMeshesRef = IF built = <<>> THEN <<GroundPlane.name>> ELSE NamesOf(built),
            !.floorRootsRef = [i \in {floors[k].id : k \in DOMAIN floors} |-> [enabled |-> TRUE]]
                              @@ wp.floorRootsRef,
            !.zoneMeshesRef =
                [id \in {floors[k].id : k \in DOMAIN floors} |->
                    LET k == CHOOSE j \in DOMAIN floors :
                                /\ floors[j].id = id
                                /\ \A l \in DOMAIN floors : floors[l].id = id => l <= j
                    IN NamesOf(buildFloor(floors[k], elevations[k],
                                          w.selectedMetric, w.timeIndex, rnd))]
                @@ wp.zoneMeshesRef,
            !.meshes = (IF built = <<>> THEN ByName(<<GroundPlane>>) ELSE ByName(built))
                       @@ wp.meshes,
            !.pendingView = IF w.selectedViewFloorId = ""
                            THEN Some(floors[1].id) ELSE w.pendingView,
            !.layoutCleanup = TRUE]
    ELSE IF LayoutPath(w.walls, w.spatialModel) = "walls"
    THEN                                                            \* lines 548-594
        [wp EXCEPT
            !.sceneRef = "live",
            !.wallMeshesRef = NamesOf(wallsBuilt),
            !.floorMeshesRef = <<GroundPlane.name>>,
            !.meshes = ByName(wallsBuilt \o <<GroundPlane>>) @@ wp.meshes,
            !.layoutCleanup = TRUE]
    ELSE                                                            \* lines 582-594
        [wp EXCEPT
            !.sceneRef = "live",
            !.floorMeshesRef = <<GroundPlane.name>>,
            !.meshes = ByName(<<GroundPlane>>) @@ wp.meshes,
            !.layoutCleanup = TRUE]

\* maxIndex of lines 664-668 and 851-855: the longest series recorded for
\* the metric by any zone, minus one, and 0 when there is none
MaxLength(model, metric) ==
    LET floors == FloorsOf(model)
        allLengths == UNION { { IF metric \in DOMAIN floors[i].zones[k].timeseries
                                THEN Len(floors[i].zones[k].timeseries[metric]) ELSE 0
                                : k \in DOMAIN floors[i].zones }
                              : i \in DOMAIN floors }
    IN  IF allLengths = {} THEN 0
        ELSE CHOOSE n \in allLengths : \A m \in allLengths : m <= n

MaxIndex(model, metric) == Max(0, MaxLength(model, metric) - 1)

\* The time-index reset effect, lines 660-674
ResetEffect(w) ==
    IF ~HasFloors(w.spatialModel) THEN w
    ELSE LET maxIndex == MaxIndex(w.spatialModel, w.selectedMetric) IN
         IF w.timeIndex > maxIndex
         THEN [w EXCEPT !.pendingTime = Some(Max(0, maxIndex))]
         ELSE w

\* Cleanup of the play/stop effect, lines 695-700
PlayCleanup(w) == clearPlayInterval(w)

\* Body of the play/stop effect, lines 677-693.  setInterval returns a handle
\* that no active timer has.
PlayBody_AlwaysStart(w) ==
    LET w1 == clearPlayInterval(w)
        handle == CHOOSE h \in TimerIds \ w1.activeTimers :
                      \A g \in TimerIds \ w1.activeTimers : h <= g
    IN  [w1 EXCEPT !.activeTimers = @ \cup {handle}, !.playIntervalRef = handle]

PlayBody(w) ==
    LET w1 == clearPlayInterval(w) IN
    IF w1.isPlaying
    THEN LET handle == CHOOSE h \in TimerIds \ w1.activeTimers :
                            \A g \in TimerIds \ w1.activeTimers : h <= g
         IN  [w1 EXCEPT !.activeTimers = @ \cup {handle}, !.playIntervalRef = handle]
    ELSE w1

\* The <<floor, zone>> pairs of the model whose extrusion is named name and
\* registered under its floor in zoneMeshesRef (lines 631-640)
ZonePairs(w, name) ==
    LET floors == FloorsOf(w.spatialModel) IN
    UNION { { <<i, k>> : k \in { j \in DOMAIN floors[i].zones :
                /\ name = ExtrudedName(floors[i], floors[i].zones[j])
                /\ name \in Range(GetOrEmpty(w.zoneMeshesRef, floors[i].id)) } }
            : i \in DOMAIN floors }

\* updateZoneMaterials, lines 628-657
updateZoneMaterials(w, metric, t, useRandomValues, rnd) ==
    IF w.spatialModel = Absent \/ w.sceneRef = "null" THEN w
    ELSE
    LET floors == FloorsOf(w.spatialModel) IN
    [w EXCEPT !.meshes =
        [name \in DOMAIN w.meshes |->
            IF ZonePairs(w, name) = {} THEN w.meshes[name]
            ELSE LET p == CHOOSE q \in ZonePairs(w, name) : TRUE
                     floor == floors[p[1]]
                     zone == floor.zones[p[2]]
                     metricData == getZoneMetricValueAtTime(zone, metric, t, useRandomValues,
                                                            rnd[<<floor.id, zone.id>>])
                     stateColor == getStateColor(metric, metricData.value)
                 IN  [w.meshes[name] EXCEPT
                        !.material = applyConfidenceModifier(stateColor,
                                                             metricData.confidence, @)]]]

\* The material-update effect, lines 704-710
MaterialEffect(w, rnd) ==
    IF ~HasFloors(w.spatialModel) \/ w.sceneRef = "null" THEN w
    ELSE IF DOMAIN w.zoneMeshesRef = {} THEN w
    ELSE updateZoneMaterials(w, w.selectedMetric, w.timeIndex, w.isPlaying, rnd)

\* floors.findIndex(f => f.id === id), 1-based, 0 for -1
FindIndex(floors, id) ==
    LET hits == {i \in DOMAIN floors : floors[i].id = id} IN
    IF hits = {} THEN 0 ELSE CHOOSE i \in hits : \A j \in hits : i <= j

\* What the visibility effect does to one mesh of the floor at index,
\* lines 728-762
visibleMesh_FreshMaterial(mesh, index, selectedIndex) ==
    IF index < selectedIndex THEN
        [mesh EXCEPT !.enabled = TRUE,
                     !.material = [NewStandardMaterial EXCEPT !.backFaceCulling = FALSE]]
    ELSE IF index = selectedIndex THEN
        IF mesh.name[1] = "zone_extruded_" THEN
            [mesh EXCEPT !.enabled = TRUE,
                         !.material = [NewStandardMaterial EXCEPT !.alpha = 25,
                                                                  !.backFaceCulling = FALSE]]
        ELSE IF mesh.name[1] = "zone_floor_" THEN
            [mesh EXCEPT !.enabled = TRUE, !.material = NewStandardMaterial]
        ELSE [mesh EXCEPT !.enabled = TRUE]
    ELSE mesh

visibleMesh_KeepAlpha(mesh, index, selectedIndex) ==
    IF index < selectedIndex THEN
        [mesh EXCEPT !.enabled = TRUE, !.material.backFaceCulling = FALSE]
    ELSE IF index = selectedIndex THEN
        IF mesh.name[1] = "zone_extruded_" THEN
            [mesh EXCEPT !.enabled = TRUE, !.material.alpha = 25,
                         !.material.backFaceCulling = FALSE]
        ELSE IF mesh.name[1] = "zone_floor_" THEN
            [mesh EXCEPT !.enabled = TRUE, !.material.alpha = 100,
                         !.material.backFaceCulling = TRUE]
        ELSE [mesh EXCEPT !.enabled = TRUE]
    ELSE mesh

visibleMesh(mesh, index, selectedIndex) ==
    IF index < selectedIndex THEN
        [mesh EXCEPT !.enabled = TRUE, !.material.alpha = 100,
                     !.material.backFaceCulling = FALSE]
    ELSE IF index = selectedIndex THEN
        IF mesh.name[1] = "zone_extruded_" THEN
            [mesh EXCEPT !.enabled = TRUE, !.material.alpha = 25,
                         !.material.backFaceCulling = FALSE]
        ELSE IF mesh.name[1] = "zone_floor_" THEN
            [mesh EXCEPT !.enabled = TRUE, !.material.alpha = 100,
                         !.material.backFaceCulling = TRUE]
        ELSE [mesh EXCEPT !.enabled = TRUE]
    ELSE mesh

\* floorRoot.setEnabled(...) for the floor at index, lines 731, 743, 761
visibleRoot(root, index, selectedIndex) ==
    [root EXCEPT !.enabled = (index <= selectedIndex)]

\* The visibility effect, lines 713-764
VisibilityEffect(w) ==
    IF \/ ~HasFloors(w.spatialModel)
       \/ w.sceneRef = "null"
       \/ w.selectedViewFloorId = ""
    THEN w
    ELSE
    LET floors == FloorsOf(w.spatialModel)
        selectedIndex == FindIndex(floors, w.selectedViewFloorId)
        \* the floors that have a root and list the mesh among their meshes
        owners(name) == {i \in DOMAIN floors :
                            /\ floors[i].id \in DOMAIN w.floorRootsRef
                            /\ name \in Range(GetOrEmpty(w.zoneMeshesRef, floors[i].id))}
    IN
    IF selectedIndex = 0 THEN w
    ELSE
    [w EXCEPT
        !.floorRootsRef =
            [id \in DOMAIN w.floorRootsRef |->
                IF FindIndex(floors, id) = 0 THEN w.floorRootsRef[id]
                ELSE visibleRoot(w.floorRootsRef[id], FindIndex(floors, id), selectedIndex)],
        !.meshes =
            [name \in DOMAIN w.meshes |->
                IF owners(name) = {} THEN w.meshes[name]
                ELSE visibleMesh(w.meshes[name], CHOOSE i \in owners(name) : TRUE,
                                 selectedIndex)]]

----------------------------------------------------------------------------
(* Inputs of the component: props and generated readings, from bounded sets *)

Segment == [start |-> [x |-> 0, y |-> 0], end |-> [x |-> 300, y |-> 0]]

WallChoices == { <<>>, <<Segment>> }

Zone(id, polygon, override, series) ==
    [id |-> id, polygon2D |-> polygon, heightOverride |-> override, timeseries |-> series]

Reading(v, c) == [value |-> v, confidence |-> c]

EmptyModel == [floors |-> <<>>]

\* A polygon of two points: not renderable (line 477)
TwoPoints == << [x |-> 0, y |-> 0], [x |-> 5, y |-> 5] >>

\* Two storeys, both with nominal elevation 0.  CO2 is recorded for two
\* instants on the first storey and one on the second, TVOC on the first
\* storey only, PM25 nowhere; the first zone of the first storey has a
\* two-point polygon, so it comes before every renderable zone.
ModelTwo ==
    [floors |-> <<
        [id |-> "floor-1", elevation |-> 0, defaultHeight |-> 28,
         zones |-> << Zone("z0", TwoPoints, Absent,
                           [CO2  |-> <<Reading(600, 95)>>]),
                      Zone("z1", Rectangle, Absent,
                           [CO2  |-> <<Reading(700, 90), Reading(1100, 50)>>,
                            TVOC |-> <<Reading(250, 70)>>]) >>],
        [id |-> "floor-2", elevation |-> 0, defaultHeight |-> 28,
         zones |-> << Zone("z1", Rectangle, Some(32),
                           [CO2  |-> <<Reading(1300, 75)>>]) >>] >>]

\* Three storeys with the nominal elevations of the example building
\* (src/src/data/spatialModelExample.ts); the middle one has no zone, and
\* only the first shares its id with ModelTwo.
ModelThree ==
    [floors |-> <<
        [id |-> "floor-1", elevation |-> 0, defaultHeight |-> 28,
         zones |-> << Zone("z1", Rectangle, Absent,
                           [CO2 |-> <<Reading(900, 65), Reading(700, 90)>>]) >>],
        [id |-> "floor-3", elevation |-> 29, defaultHeight |-> 28,
         zones |-> << >>],
        [id |-> "floor-4", elevation |-> 61, defaultHeight |-> 26,
         zones |-> << Zone("z1", Rectangle, Absent,
                           [CO2 |-> <<Reading(1250, 55)>>]) >>] >>]

ModelChoices == { Absent, Some(EmptyModel), Some(ModelTwo), Some(ModelThree) }

FloorIdChoices == { "floor-1", "floor-2" }

\* The metric selector's options, lines 804-806
MetricOptions == { "CO2", "TVOC", "PM25" }

\* Play mode stops advancing the time index here
MaxTimeIndex == 2

\* Readings standing for the two Math.random() draws of lines 94-103 and
\* 110-114: value in [0, 1.5 x red), confidence in [0.5, 1.0)
RandomReadings(metric) ==
    LET thresholds == ThresholdsFor(metric) IN
    { Reading(0, 90), Reading(thresholds.red, 55) }

Unused == Reading(0, 0)

\* getZoneMetricValueAtTime generates the reading it returns (lines 92-104
\* and 108-115) instead of reading it from the series (line 116)
Generates(zone, metric, t, useRandomValues) ==
    \/ useRandomValues
    \/ metric \notin DOMAIN zone.timeseries
    \/ t < 0
    \/ t >= Len(zone.timeseries[metric])

ZoneKeys(model) ==
    LET floors == FloorsOf(model) IN
    UNION { { <<floors[i].id, floors[i].zones[k].id>> : k \in DOMAIN floors[i].zones }
            : i \in DOMAIN floors }

ZoneAt(model, key) ==
    LET floors == FloorsOf(model)
        i == CHOOSE j \in DOMAIN floors : floors[j].id = key[1]
        k == CHOOSE j \in DOMAIN floors[i].zones : floors[i].zones[j].id = key[2]
    IN  floors[i].zones[k]

\* The readings generated in one pass over the zones: one for every zone with
\* a mesh that needs one.  The zones of a pass are given the same reading.
Draws(model, metric, t, useRandomValues) ==
    LET needed == { key \in ZoneKeys(model) :
                        /\ Len(ZoneAt(model, key).polygon2D) >= 3
                        /\ Generates(ZoneAt(model, key), metric, t, useRandomValues) }
    IN  IF needed = {}
        THEN { [key \in ZoneKeys(model) |-> Unused] }
        ELSE { [key \in ZoneKeys(model) |-> IF key \in needed THEN r ELSE Unused]
               : r \in RandomReadings(metric) }

\* No reading is generated in a pass that does not colour zones
NoDraws == { <<>> }

----------------------------------------------------------------------------
(* The component's events.  Each is one render pass: the state or prop      *)
(* change, then the cleanups of the effects whose dependencies changed, then *)
(* their bodies, in the order the effects are declared.  A state update an   *)
(* effect queues (pendingView, pendingTime) is applied by the next pass,     *)
(* Rerender, before any other event.                                         *)

Settled == pendingView = Absent /\ pendingTime = Absent

\* The refs and state of a component instance before its first render,
\* lines 336-349
FreshInstance(w) ==
    [w EXCEPT !.selectedViewFloorId = "", !.selectedMetric = "CO2", !.timeIndex = 0,
              !.isPlaying = FALSE, !.pendingView = Absent, !.pendingTime = Absent,
              !.playIntervalRef = 0, !.sceneRef = "null", !.layoutCleanup = FALSE,
              !.floorRootsRef = EmptyMap, !.zoneMeshesRef = EmptyMap,
              !.floorMeshesRef = <<>>, !.wallMeshesRef = <<>>, !.meshes = EmptyMap]

\* An instance that is removed loses its props and its state; what its
\* cleanups left in the refs, the scene and the timers stays as it is.
Discarded(w) ==
    [w EXCEPT !.mounted = FALSE, !.walls = <<>>, !.spatialModel = Absent,
              !.selectedFloorId = "floor-1", !.selectedViewFloorId = "",
              !.selectedMetric = "CO2", !.timeIndex = 0, !.isPlaying = FALSE,
              !.pendingView = Absent, !.pendingTime = Absent]

CompInit ==
    /\ mounted = FALSE
    /\ walls = <<>>
    /\ spatialModel = Absent
    /\ selectedFloorId = "floor-1"
    /\ selectedViewFloorId = ""
    /\ selectedMetric = "CO2"
    /\ timeIndex = 0
    /\ isPlaying = FALSE
    /\ pendingView = Absent
    /\ pendingTime = Absent
    /\ playIntervalRef = 0
    /\ activeTimers = {}
    /\ sceneRef = "null"
    /\ layoutCleanup = FALSE
    /\ floorRootsRef = EmptyMap
    /\ zoneMeshesRef = EmptyMap
    /\ floorMeshesRef = <<>>
    /\ wallMeshesRef = <<>>
    /\ meshes = EmptyMap

\* First render: every effect body runs, in order (lines 351, 660, 677, 704, 713)
Mount ==
    /\ ~mounted
    /\ \E ws \in WallChoices, model \in ModelChoices, sel \in FloorIdChoices :
       \E rnd1, rnd2 \in Draws(model, "CO2", 0, FALSE) :
       \E w0 \in { [FreshInstance(World) EXCEPT !.mounted = TRUE, !.walls = ws,
                        !.spatialModel = model, !.selectedFloorId = sel] } :
       \E w1 \in { LayoutBody(w0, rnd1) } :
       \E w2 \in { ResetEffect(w1) } :
       \E w3 \in { PlayBody(w2) } :
       \E w4 \in { MaterialEffect(w3, rnd2) } :
       \E w5 \in { VisibilityEffect(w4) } :
            Install(w5)

\* The parent passes a new wall array (possibly with the same segments):
\* the layout effect re-runs (dependencies of line 625)
SetWalls ==
    /\ mounted /\ Settled
    /\ \E ws \in WallChoices :
       \E rnd1 \in Draws(spatialModel, selectedMetric, timeIndex, FALSE) :
       \E w0 \in { [World EXCEPT !.walls = ws] } :
       \E wc \in { IF layoutCleanup THEN LayoutCleanup(w0) ELSE w0 } :
       \E w1 \in { LayoutBody(wc, rnd1) } :
            Install(w1)

\* The parent passes another selectedFloorId: the layout effect re-runs
SetSelectedFloorId ==
    /\ mounted /\ Settled
    /\ \E sel \in FloorIdChoices \ {selectedFloorId} :
       \E rnd1 \in Draws(spatialModel, selectedMetric, timeIndex, FALSE) :
       \E w0 \in { [World EXCEPT !.selectedFloorId = sel] } :
       \E wc \in { IF layoutCleanup THEN LayoutCleanup(w0) ELSE w0 } :
       \E w1 \in { LayoutBody(wc, rnd1) } :
            Install(w1)

\* The parent passes a new model object (possibly with the same content), or
\* none: the effects of lines 351, 660, 704 and 713 re-run, in that order
SetSpatialModel ==
    /\ mounted /\ Settled
    /\ \E model \in ModelChoices :
        /\ model # Absent \/ spatialModel # Absent
        /\ \E rnd1 \in Draws(model, selectedMetric, timeIndex, FALSE),
              rnd2 \in Draws(model, selectedMetric, timeIndex, isPlaying) :
           \E w0 \in { [World EXCEPT !.spatialModel = model] } :
           \E wc \in { IF layoutCleanup THEN LayoutCleanup(w0) ELSE w0 } :
           \E w1 \in { LayoutBody(wc, rnd1) } :
           \E w2 \in { ResetEffect(w1) } :
           \E w4 \in { MaterialEffect(w2, rnd2) } :
           \E w5 \in { VisibilityEffect(w4) } :
                Install(w5)

\* The floor selector, lines 783-793
SelectViewFloor ==
    /\ mounted /\ Settled
    /\ HasFloors(spatialModel)
    /\ \E i \in DOMAIN FloorsOf(spatialModel) :
        /\ FloorsOf(spatialModel)[i].id # selectedViewFloorId
        /\ \E w0 \in { [World EXCEPT !.selectedViewFloorId = FloorsOf(spatialModel)[i].id] } :
           \E w1 \in { VisibilityEffect(w0) } :
                Install(w1)

\* The metric selector, lines 799-807
SelectMetric ==
    /\ mounted /\ Settled
    /\ HasFloors(spatialModel)
    /\ \E metric \in MetricOptions \ {selectedMetric} :
       \E rnd \in Draws(spatialModel, metric, timeIndex, isPlaying) :
       \E w0 \in { [World EXCEPT !.selectedMetric = metric] } :
       \E w1 \in { ResetEffect(w0) } :
       \E w2 \in { MaterialEffect(w1, rnd) } :
            Install(w2)

\* The play / stop button, line 814
TogglePlay ==
    /\ mounted /\ Settled
    /\ HasFloors(spatialModel)
    /\ TimerIds \ activeTimers # {}
    /\ \E rnd \in Draws(spatialModel, selectedMetric, timeIndex, ~isPlaying) :
       \E w0 \in { [World EXCEPT !.isPlaying = ~isPlaying] } :
       \E w1 \in { PlayCleanup(w0) } :
       \E w2 \in { PlayBody(w1) } :
       \E w3 \in { MaterialEffect(w2, rnd) } :
            Install(w3)

\* The time slider, lines 861-870: shown when play mode is off and the metric
\* has a recorded series
SliderMove ==
    /\ mounted /\ Settled
    /\ HasFloors(spatialModel)
    /\ ~isPlaying
    /\ MaxLength(spatialModel, selectedMetric) > 0
    /\ \E t \in 0..MaxIndex(spatialModel, selectedMetric) :
        /\ t # timeIndex
        /\ \E rnd \in Draws(spatialModel, selectedMetric, t, isPlaying) :
           \E w0 \in { [World EXCEPT !.timeIndex = t] } :
           \E w1 \in { MaterialEffect(w0, rnd) } :
                Install(w1)

\* An active interval timer fires, lines 686-692
Tick ==
    /\ mounted /\ Settled
    /\ activeTimers # {}
    /\ timeIndex < MaxTimeIndex
    /\ \E rnd \in Draws(spatialModel, selectedMetric, timeIndex + 1, isPlaying) :
       \E w0 \in { [World EXCEPT !.timeIndex = timeIndex + 1] } :
       \E w1 \in { MaterialEffect(w0, rnd) } :
            Install(w1)

\* The render pass that applies the state updates queued by effects
\* (setSelectedViewFloorId of line 546, setTimeIndex of line 672)
Rerender ==
    /\ mounted /\ ~Settled
    /\ \E t \in { IF pendingTime = Absent THEN timeIndex ELSE pendingTime[1] },
          v \in { IF pendingView = Absent THEN selectedViewFloorId ELSE pendingView[1] } :
       \E rnd \in IF t # timeIndex
                  THEN Draws(spatialModel, selectedMetric, t, isPlaying)
                  ELSE NoDraws :
       \E w0 \in { [World EXCEPT !.timeIndex = t, !.selectedViewFloorId = v,
                                 !.pendingTime = Absent, !.pendingView = Absent] } :
       \E w1 \in { IF t # timeIndex THEN MaterialEffect(w0, rnd) ELSE w0 } :
       \E w2 \in { IF v # selectedViewFloorId THEN VisibilityEffect(w1) ELSE w1 } :
            Install(w2)

\* The component is removed: every registered cleanup runs
Unmount ==
    /\ mounted /\ Settled
    /\ \E w0 \in { World } :
       \E w1 \in { IF layoutCleanup THEN LayoutCleanup(w0) ELSE w0 } :
       \E w2 \in { PlayCleanup(w1) } :
            Install(Discarded(w2))

----------------------------------------------------------------------------
(* SpecGeometry: the framing and the vertex data of one layout pass, lines   *)
(* 119-137, 174-333 and 379-405.  Plan coordinates of zone points are in     *)
(* tenths of a metre, wall coordinates in pixels, world coordinates in       *)
(* tenths of a world unit; vertical vertex coordinates are doubled (y2) so   *)
(* that height / 2 stays integral.  The inputs are multiples of 60 pixels,   *)
(* for which every division below is exact.                                  *)

SetMin(S) == CHOOSE a \in S : \A b \in S : a <= b

SetMax(S) == CHOOSE a \in S : \A b \in S : a >= b

\* const SCALE = 1 / 30 (line 29): pixels to tenths of a world unit
SCALE(pixels) == (pixels * 10) \div 30

\* floor.plan2D.scale || 30, lines 184, 273, 385
planScaleOf(floor) == IF floor.plan2D.scale = 0 THEN 30 ELSE floor.plan2D.scale

\* point.x * scale: a plan coordinate (tenths of a metre) in pixels
ToPixels(coordinate, scale) == (coordinate * scale) \div 10

\* calculateBounds, lines 119-137
calculateBounds(ws) ==
    IF Len(ws) = 0 THEN [minX |-> 0, maxX |-> 0, minY |-> 0, maxY |-> 0]
    ELSE LET xs == UNION { {ws[i].start.x, ws[i].end.x} : i \in DOMAIN ws }
             ys == UNION { {ws[i].start.y, ws[i].end.y} : i \in DOMAIN ws }
         IN  [minX |-> SetMin(xs), maxX |-> SetMax(xs),
              minY |-> SetMin(ys), maxY |-> SetMax(ys)]

\* The points of all zones of all floors, in pixels (lines 384-394)
ZonePixels(floors) ==
    UNION { UNION { { [x |-> ToPixels(floors[i].zones[k].polygon2D[j].x, planScaleOf(floors[i])),
                       y |-> ToPixels(floors[i].zones[k].polygon2D[j].y, planScaleOf(floors[i]))]
                      : j \in DOMAIN floors[i].zones[k].polygon2D }
                    : k \in DOMAIN floors[i].zones }
            : i \in DOMAIN floors }

\* bounds of the layout effect, lines 379-398
layoutBounds(ws, model) ==
    LET pixels == ZonePixels(FloorsOf(model)) IN
    IF Len(ws) = 0 /\ HasFloors(model) /\ pixels # {}
    THEN [minX |-> SetMin({p.x : p \in pixels}), maxX |-> SetMax({p.x : p \in pixels}),
          minY |-> SetMin({p.y : p \in pixels}), maxY |-> SetMax({p.y : p \in pixels})]
    ELSE calculateBounds(ws)

\* offsetX and offsetZ, lines 401-404
layoutOffset(bounds) ==
    [x |-> 0 - SCALE((bounds.minX + bounds.maxX) \div 2),
     z |-> 0 - SCALE((bounds.minY + bounds.maxY) \div 2)]

\* maxDim, line 405: || replaces a product of 0 by 20 world units
layoutMaxDim_NoFallback(bounds) ==
    SCALE(Max(bounds.maxX - bounds.minX, bounds.maxY - bounds.minY))

layoutMaxDim(bounds) ==
    LET extent == SCALE(Max(bounds.maxX - bounds.minX, bounds.maxY - bounds.minY)) IN
    IF extent = 0 THEN 200 ELSE extent

\* x3D and z3D of a polygon point, lines 197-198 and 278-279
Point3D(point, floor, offset) ==
    [x |-> SCALE(ToPixels(point.x, planScaleOf(floor))) + offset.x,
     z |-> SCALE(ToPixels(point.y, planScaleOf(floor))) + offset.z]

\* vertices of createExtrudedZone, lines 195-205: for the point of index i the
\* bottom vertex has index 2i and the top vertex 2i+1; vertex v is vertices[v+1]
extrudedVertices(zone, floor, height, offset) ==
    [j \in 1..(2 * Len(zone.polygon2D)) |->
        LET p == Point3D(zone.polygon2D[(j + 1) \div 2], floor, offset) IN
        [x |-> p.x, y2 |-> IF j % 2 = 1 THEN 0 - height ELSE height, z |-> p.z]]

\* side faces of createExtrudedZone, lines 219-231
extrudedSides_OpenSeam(numPoints) ==
    [k \in 1..(2 * (numPoints - 1)) |->
        LET i == (k - 1) \div 2
            next == (i + 1) % numPoints
        IN  IF k % 2 = 1 THEN <<i * 2, next * 2, i * 2 + 1>>
            ELSE <<next * 2, next * 2 + 1, i * 2 + 1>>]

extrudedSides(numPoints) ==
    [k \in 1..(2 * numPoints) |->
        LET i == (k - 1) \div 2
            next == (i + 1) % numPoints
        IN  IF k % 2 = 1 THEN <<i * 2, next * 2, i * 2 + 1>>
            ELSE <<next * 2, next * 2 + 1, i * 2 + 1>>]

\* inward side faces left in the winding of the outward-facing variant
extrudedSidesInward_Unreversed(numPoints) == extrudedSides(numPoints)

\* side faces of the inward-facing createExtrudedZone, part_001 lines 131-143
extrudedSidesInward(numPoints) ==
    [k \in 1..(2 * numPoints) |->
        LET i == (k - 1) \div 2
            next == (i + 1) % numPoints
        IN  IF k % 2 = 1 THEN <<i * 2, i * 2 + 1, next * 2>>
            ELSE <<next * 2, i * 2 + 1, next * 2 + 1>>]

\* the two fans shared by both generators, lines 208-215 and 288-295
fanIndices(numPoints) ==
    [i \in 1..(numPoints - 2) |-> <<0, i * 2, (i + 1) * 2>>]
    \o [i \in 1..(numPoints - 2) |-> <<1, (i + 1) * 2 + 1, i * 2 + 1>>]

\* indices of createExtrudedZone, lines 207-231
extrudedIndices(numPoints) == fanIndices(numPoints) \o extrudedSides(numPoints)

\* the two fans of the inward-facing createExtrudedZone, part_001 lines 120-128
fanIndicesInward(numPoints) ==
    [i \in 1..(numPoints - 2) |-> <<0, i * 2, (i + 1) * 2>>]
    \o [i \in 1..(numPoints - 2) |-> <<1, (i + 1) * 2 + 1, i * 2 + 1>>]

\* indices of the inward-facing createExtrudedZone, part_001 lines 120-143
extrudedIndicesInward(numPoints) ==
    fanIndicesInward(numPoints) \o extrudedSidesInward(numPoints)

\* vertices of the inward-facing createExtrudedZone, part_001 lines 108-118
extrudedVerticesInward(zone, floor, height, offset) ==
    [j \in 1..(2 * Len(zone.polygon2D)) |->
        LET p == Point3D(zone.polygon2D[(j + 1) \div 2], floor, offset) IN
        [x |-> p.x, y2 |-> IF j % 2 = 1 THEN 0 - height ELSE height, z |-> p.z]]

\* texture coordinates of createExtrudedZone, lines 233-239: one pair
\* (i / numPoints, 0) per point, then one pair (i / numPoints, 1) per point;
\* u is kept as the fraction <<i, numPoints>>
extrudedUVs(numPoints) ==
    [i \in 1..numPoints |-> [u |-> <<i - 1, numPoints>>, v |-> 0]]
    \o [i \in 1..numPoints |-> [u |-> <<i - 1, numPoints>>, v |-> 1]]

\* texture coordinates of the inward-facing variant, part_001 lines 145-151
extrudedUVsInward(numPoints) ==
    [k \in 1..(2 * numPoints) |->
        [u |-> <<(k - 1) % numPoints, numPoints>>, v |-> IF k <= numPoints THEN 0 ELSE 1]]

\* vertices of createFloorFromZone, lines 276-285: top vertex 2i, bottom 2i+1
slabVertices(zone, floor, offset) ==
    [j \in 1..(2 * Len(zone.polygon2D)) |->
        LET p == Point3D(zone.polygon2D[(j + 1) \div 2], floor, offset) IN
        [x |-> p.x,
         y2 |-> IF j % 2 = 1 THEN 2 * (floor.elevation + FLOOR_THICKNESS)
                ELSE 2 * floor.elevation,
         z |-> p.z]]

\* indices of createFloorFromZone, lines 287-308
slabIndices(numPoints) ==
    fanIndices(numPoints)
    \o [k \in 1..(2 * numPoints) |->
          LET i == (k - 1) \div 2
              next == (i + 1) % numPoints
          IN  IF k % 2 = 1 THEN <<i * 2, i * 2 + 1, next * 2 + 1>>
              ELSE <<i * 2, next * 2 + 1, next * 2>>]

\* vertex data and position of the extrusion of a zone, lines 174-259
extrudedGeometry(zone, floor, height, offset) ==
    [ name          |-> ExtrudedName(floor, zone),
      vertices      |-> extrudedVertices(zone, floor, height, offset),
      indices       |-> extrudedIndices(Len(zone.polygon2D)),
      inwardIndices |-> extrudedIndicesInward(Len(zone.polygon2D)),
      inwardVertices |-> extrudedVerticesInward(zone, floor, height, offset),
      uvs           |-> extrudedUVs(Len(zone.polygon2D)),
      inwardUvs     |-> extrudedUVsInward(Len(zone.polygon2D)),
      positionY2    |-> 2 * floor.elevation + height ]

\* vertex data and position of the slab of a zone, lines 262-333
slabGeometry(zone, floor, offset) ==
    [ name          |-> FloorName(floor, zone),
      vertices      |-> slabVertices(zone, floor, offset),
      indices       |-> slabIndices(Len(zone.polygon2D)),
      inwardIndices |-> slabIndices(Len(zone.polygon2D)),
      positionY2    |-> 0 ]

\* geometry of the first k zones of a floor placed at floorElevation,
\* lines 476-538
RECURSIVE zonesGeometry(_, _, _, _)
zonesGeometry(floor, floorElevation, k, offset) ==
    IF k = 0 THEN <<>>
    ELSE LET zone   == floor.zones[k]
             placed == [floor EXCEPT !.elevation = floorElevation]
         IN  zonesGeometry(floor, floorElevation, k - 1, offset)
             \o (IF Len(zone.polygon2D) >= 3
                 THEN << extrudedGeometry(zone, placed, zoneHeightOf(zone, floor), offset),
                         slabGeometry(zone, placed, offset) >>
                 ELSE <<>>)

\* geometry of the first n floors, lines 449-542
RECURSIVE floorsGeometry(_, _, _, _)
floorsGeometry(floors, elevations, n, offset) ==
    IF n = 0 THEN <<>>
    ELSE floorsGeometry(floors, elevations, n - 1, offset)
         \o zonesGeometry(floors[n], elevations[n], Len(floors[n].zones), offset)

MaxGeoFloors == 2

MaxPoints == 5

\* A convex polygon of n points on an arch, with even coordinates
Polygon(n) == [i \in 1..n |-> [x |-> 20 * i, y |-> 20 * i * (n - i)]]

FarRectangle == << [x |-> 100, y |-> 60], [x |-> 140, y |-> 60],
                   [x |-> 140, y |-> 80], [x |-> 100, y |-> 80] >>

GeoZoneChoices ==
    { <<>> } \cup
    { << Zone("z1", polygon, Absent, RecordedSeries) >>
        : polygon \in {Polygon(n) : n \in {0} \cup 2..MaxPoints} \cup {FarRectangle} }

GeoFloorLists ==
    UNION { [1..n -> [elevation : {0}, defaultHeight : {28},
                      plan2D : [scale : {0, 60}], zones : GeoZoneChoices]]
            : n \in 0..MaxGeoFloors }

GeoWithIds(fl) ==
    [i \in DOMAIN fl |->
        [id |-> FloorId(i), elevation |-> fl[i].elevation,
         defaultHeight |-> fl[i].defaultHeight, plan2D |-> fl[i].plan2D,
         zones |-> fl[i].zones]]

Wall(x1, y1, x2, y2) == [start |-> [x |-> x1, y |-> y1], end |-> [x |-> x2, y |-> y2]]

\* No wall, one wall of 60 pixels, a wall of zero length, two walls of an
\* L-shaped plan of 600 x 1200 pixels
GeoWallChoices ==
    { <<>>, << Wall(0, 0, 60, 0) >>, << Wall(120, 60, 120, 60) >>,
      << Wall(0, 0, 600, 0), Wall(600, 0, 600, 1200) >> }

NoBounds == [minX |-> 0, maxX |-> 0, minY |-> 0, maxY |-> 0]

\* length < 0.001 (line 150) on the squared length, in tenths of a metre
tooShort(lengthSq) == lengthSq * 10000 < 1

\* createWall without the fallback of lines 150-152
wallGeometry_NoFallback(name, start, end, height) ==
    LET dx == end.x - start.x
        dz == end.z - start.z
    IN  [ name |-> name, widthSq |-> dx * dx + dz * dz, height |-> height, depth |-> 2,
          positionX2 |-> start.x + end.x, positionY2 |-> height, positionZ2 |-> start.z + end.z ]

\* createWall, lines 139-171: the box of a segment between two points (in
\* tenths of a metre).  The width is kept squared, the position doubled.
\* The fallback cube has size 0.1 and stays at the origin.
wallGeometry(name, start, end, height) ==
    LET dx == end.x - start.x
        dz == end.z - start.z
        lengthSq == dx * dx + dz * dz
    IN  IF tooShort(lengthSq)
        THEN [ name |-> name, widthSq |-> 1, height |-> 1, depth |-> 1,
               positionX2 |-> 0, positionY2 |-> 0, positionZ2 |-> 0 ]
        ELSE [ name |-> name, widthSq |-> lengthSq, height |-> height, depth |-> 2,
               positionX2 |-> start.x + end.x,
               positionY2 |-> height,
               positionZ2 |-> start.z + end.z ]

\* The wall branch of the pass, lines 548-579, for the floor the code finds:
\* the end points are scaled, and the solid is moved to
\* y = floorElevation + FLOOR_THICKNESS + floorHeight / 2 (line 570)
wallsGeometry(ws, floors, selectedFloor) ==
    LET currentFloors == IF selectedFloor # ""
                         THEN {i \in DOMAIN floors : floors[i].id = selectedFloor}
                         ELSE {}
        currentFloor == floors[CHOOSE i \in currentFloors : \A j \in currentFloors : i <= j]
        floorElevation == IF currentFloors # {} THEN currentFloor.elevation ELSE 0
        floorHeight == IF currentFloors # {} THEN currentFloor.defaultHeight ELSE WALL_HEIGHT
    IN  [i \in DOMAIN ws |->
            LET start == [x |-> SCALE(ws[i].start.x), z |-> SCALE(ws[i].start.y)]
                end   == [x |-> SCALE(ws[i].end.x), z |-> SCALE(ws[i].end.y)]
            IN  [wallGeometry(WallName(i), start, end, floorHeight)
                 EXCEPT !.positionY2 = 2 * (floorElevation + FLOOR_THICKNESS) + floorHeight]]

GeoIdle ==
    /\ gpc = "idle"
    /\ geoWalls = <<>>
    /\ geoFloors = <<>>
    /\ geoBounds = NoBounds
    /\ geoOffset = [x |-> 0, z |-> 0]
    /\ geoMaxDim = 0
    /\ geoMeshes = <<>>

GeoInit ==
    /\ gpc = "input"
    /\ geoWalls \in GeoWallChoices
    /\ geoFloors \in {GeoWithIds(fl) : fl \in GeoFloorLists}
    /\ geoBounds = NoBounds
    /\ geoOffset = [x |-> 0, z |-> 0]
    /\ geoMaxDim = 0
    /\ geoMeshes = <<>>

\* Bounds, centre offset and maxDim of a layout pass, lines 354 and 379-405
Frame ==
    /\ gpc = "input"
    /\ LayoutPath(geoWalls, Some([floors |-> geoFloors])) # "none"
    /\ LET bounds == layoutBounds(geoWalls, Some([floors |-> geoFloors])) IN
        /\ geoBounds' = bounds
        /\ geoOffset' = layoutOffset(bounds)
        /\ geoMaxDim' = layoutMaxDim(bounds)
    /\ gpc' = "framed"
    /\ UNCHANGED <<geoWalls, geoFloors, geoMeshes>>
    /\ UNCHANGED <<colorVars, stackVars, compVars>>

\* The SpatialModel branch of the pass, lines 449-542, with the offset of Frame
BuildGeometry ==
    /\ gpc = "framed"
    /\ LayoutPath(geoWalls, Some([floors |-> geoFloors])) = "model"
    /\ geoMeshes' = floorsGeometry(geoFloors, StackElevations(geoFloors, Len(geoFloors)),
                                   Len(geoFloors), geoOffset)
    /\ gpc' = "built"
    /\ UNCHANGED <<geoWalls, geoFloors, geoBounds, geoOffset, geoMaxDim>>
    /\ UNCHANGED <<colorVars, stackVars, compVars>>

\* The wall branch of the pass, lines 548-579: the model has no floor
BuildWalls ==
    /\ gpc = "framed"
    /\ LayoutPath(geoWalls, Some([floors |-> geoFloors])) = "walls"
    /\ \E selectedFloor \in {""} \cup FloorIdChoices :
           geoMeshes' = wallsGeometry(geoWalls, geoFloors, selectedFloor)
    /\ gpc' = "walled"
    /\ UNCHANGED <<geoWalls, geoFloors, geoBounds, geoOffset, geoMaxDim>>
    /\ UNCHANGED <<colorVars, stackVars, compVars>>

----------------------------------------------------------------------------
(* Specifications *)

vars == <<colorVars, stackVars, compVars, geoVars>>

ColorIdle ==
    /\ cpc = "idle"
    /\ rdMetric = "CO2"
    /\ rdValue = 0
    /\ rdConfidence = 0
    /\ rdThresholds = <<>>
    /\ rdColor = NoColor
    /\ rdMaterial = NewStandardMaterial

StackIdle ==
    /\ spc = "idle"
    /\ stFloors = <<>>
    /\ stElevations = <<>>
    /\ stMeshes = <<>>
    /\ stTotalHeight = 0
    /\ stCamera = NoCamera

\* The colour engine on its own
InitColor == ColorInit /\ StackIdle /\ CompInit /\ GeoIdle

NextColor ==
    \/ Classify
    \/ ApplyConfidence
    \/ NextReading

SpecColor == InitColor /\ [][NextColor]_vars

\* The colour engine on metric names without a table entry of their own
InitLookup == LookupInit /\ StackIdle /\ CompInit /\ GeoIdle

NextLookup ==
    \/ Classify
    \/ ApplyConfidence
    \/ NextUnknownReading

SpecLookup == InitLookup /\ [][NextLookup]_vars

\* The floor stacking of a layout pass on its own
InitStack == StackInit /\ ColorIdle /\ CompInit /\ GeoIdle

NextStack == StackLayout

SpecStack == InitStack /\ [][NextStack]_vars

\* The component
Init == CompInit /\ ColorIdle /\ StackIdle /\ GeoIdle

Next ==
    \/ Mount
    \/ SetWalls
    \/ SetSelectedFloorId
    \/ SetSpatialModel
    \/ SelectViewFloor
    \/ SelectMetric
    \/ TogglePlay
    \/ SliderMove
    \/ Tick
    \/ Rerender
    \/ Unmount

Spec == Init /\ [][Next]_vars

\* The framing and the vertex data of a layout pass on their own
InitGeometry == GeoInit /\ ColorIdle /\ StackIdle /\ CompInit

NextGeometry ==
    \/ Frame
    \/ BuildGeometry
    \/ BuildWalls

SpecGeometry == InitGeometry /\ [][NextGeometry]_vars

----------------------------------------------------------------------------
(* Claims about the floor stacking (SpecStack) *)

\* C1: for every floor index i > 0, every mesh built for floor i-1 (zone
\* extrusions and slabs) ends at least FLOOR_THICKNESS below the effective
\* elevation of floor i, so consecutive floors never intersect vertically.
C1_GapBelowNextFloor ==
    spc = "built" =>
        \A i \in 2..Len(stFloors) :
            \A m \in MeshesOfFloor(stMeshes, i - 1) :
                m.yMax + FLOOR_THICKNESS <= stElevations[i]

\* C2: the elevation used to place floor 0 is its nominal elevation, and for
\* every later floor it is the larger of its nominal elevation and the previous
\* floor's effective elevation + slab thickness + previous default height;
\* every mesh of a floor has its base at that elevation.
C2_EffectiveElevation ==
    spc = "built" =>
        /\ Len(stElevations) = Len(stFloors)
        /\ Len(stFloors) >= 1 => stElevations[1] = stFloors[1].elevation
        /\ \A i \in 2..Len(stFloors) :
            /\ stElevations[i] >= stElevations[i - 1] + 1 + stFloors[i - 1].defaultHeight
            /\ stElevations[i] >= stFloors[i].elevation
            /\ \/ stElevations[i] = stFloors[i].elevation
               \/ stElevations[i] = stElevations[i - 1] + 1 + stFloors[i - 1].defaultHeight
        /\ \A i \in 1..Len(stFloors) :
            \A m \in MeshesOfFloor(stMeshes, i) : m.yMin = stElevations[i]

\* C2 witness: the two-floor scenario, both nominal elevations 0 and height
\* 2.8 m, places the meshes of the upper floor at 2.9 m.
C2_Witness ==
    /\ spc = "built"
    /\ Len(stFloors) = 2
    /\ stFloors[1].elevation = 0 /\ stFloors[1].defaultHeight = 28
    /\ stFloors[2].elevation = 0
    /\ stElevations[2] = 29
    /\ \E m \in MeshesOfFloor(stMeshes, 2) : m.yMin = 29

----------------------------------------------------------------------------
(* Claims about the colour engine (SpecColor) *)

BandRank(color) ==
    CASE color = ColorGreen  -> 1
      [] color = ColorYellow -> 2
      [] color = ColorOrange -> 3
      [] color = ColorRed    -> 4

\* C7: getStateColor returns the colour of the first band whose threshold the
\* value is strictly below (green, yellow, orange, else red); a value equal to
\* a threshold is in the next band up; a smaller value never gets a higher band.
C7_FirstBandStrictlyBelow ==
    cpc = "classified" =>
        LET th == rdThresholds IN
        /\ rdValue < th.green => rdColor = ColorGreen
        /\ (th.green <= rdValue /\ rdValue < th.yellow) => rdColor = ColorYellow
        /\ (th.yellow <= rdValue /\ rdValue < th.orange) => rdColor = ColorOrange
        /\ th.orange <= rdValue => rdColor = ColorRed
        /\ \A v \in ReadingValues :
            v <= rdValue => BandRank(getStateColor(rdMetric, v)) <= BandRank(rdColor)

\* C7 witness: a value exactly at the green threshold is classified yellow
C7_Witness ==
    /\ cpc = "classified"
    /\ rdValue = rdThresholds.green
    /\ rdColor = ColorYellow

\* C8: applyConfidenceModifier picks one of three regimes: confidence >= 0.8
\* keeps the base colour with alpha 0.9; 0.6 <= confidence < 0.8 blends 30%
\* toward the colour's own gray with alpha 0.75; confidence < 0.6 gives the
\* monochrome 0.8 x gray with alpha 0.55 and the emissive marker.  0.8 and 0.6
\* themselves belong to the higher-trust regime.
C8_ThreeRegimes ==
    cpc = "applied" =>
        LET gray3 == rdColor[1] + rdColor[2] + rdColor[3]   \* 3 x gray
            m == rdMaterial
        IN
        /\ rdConfidence >= 80 =>
            /\ m.diffuseColor = rdColor
            /\ m.alpha = 90
        /\ (60 <= rdConfidence /\ rdConfidence < 80) =>
            /\ \A i \in 1..3 : 30 * m.diffuseColor[i] = 21 * rdColor[i] + 3 * gray3
            /\ m.alpha = 75
        /\ rdConfidence < 60 =>
            /\ \A i \in 1..3 : 30 * m.diffuseColor[i] = 8 * gray3
            /\ m.alpha = 55
            /\ m.emissiveColor = Color3(90, 90, 90)

\* C8 witness: the boundary confidence 0.6 resolved to the middle regime
C8_Witness ==
    /\ cpc = "applied"
    /\ rdConfidence = 60
    /\ rdMaterial.alpha = 75
    /\ rdMaterial.diffuseColor # rdColor

\* C9 (as claimed): every table entry has four strictly ascending
\* breakpoints green < yellow < orange < red; stated of the entry every
\* classification looks up (the readings range over all metrics).
C9_StrictlyAscending ==
    cpc = "classified" =>
        /\ rdThresholds.green < rdThresholds.yellow
        /\ rdThresholds.yellow < rdThresholds.orange
        /\ rdThresholds.orange < rdThresholds.red

\* C9 (amended): every table entry, and so every entry a classification looks
\* up, has green < yellow < orange and red equal to orange.
C9_AscendingOrangeIsRed ==
    /\ \A m \in DOMAIN METRIC_THRESHOLDS :
        /\ METRIC_THRESHOLDS[m].green < METRIC_THRESHOLDS[m].yellow
        /\ METRIC_THRESHOLDS[m].yellow < METRIC_THRESHOLDS[m].orange
        /\ METRIC_THRESHOLDS[m].orange = METRIC_THRESHOLDS[m].red
    /\ cpc = "classified" =>
        /\ rdThresholds.green < rdThresholds.yellow
        /\ rdThresholds.yellow < rdThresholds.orange
        /\ rdThresholds.orange = rdThresholds.red

\* C9 witness: a table entry has been looked up for a value at its orange
\* (= red) breakpoint, which is classified red
C9_Witness ==
    /\ cpc = "classified"
    /\ rdMetric \in DOMAIN METRIC_THRESHOLDS
    /\ rdValue = rdThresholds.orange
    /\ rdValue = rdThresholds.red
    /\ rdColor = ColorRed


----------------------------------------------------------------------------
(* Claims about the component (Spec) *)

\* Index of the selected view floor in the current model, 0 when no floor
\* has that id
SelectedIndex == FindIndex(FloorsOf(spatialModel), selectedViewFloorId)

\* The live meshes built for the floor at index i of the current model
FloorMeshes(i) ==
    { meshes[n] : n \in { m \in DOMAIN meshes : m[2] = FloorsOf(spatialModel)[i].id } }

IsExtrusion(mesh) == mesh.name[1] = "zone_extruded_"

IsSlab(mesh) == mesh.name[1] = "zone_floor_"

\* The component shows a model with floors
Showing == mounted /\ HasFloors(spatialModel)

\* The visibility rule for the selected floor S: floors below S enabled and
\* fully opaque, floor S enabled with walls at alpha <= 0.25 and slabs at 1.0,
\* floors above S disabled
VisibilityRule ==
    LET floors == FloorsOf(spatialModel)
        S == SelectedIndex
    IN  \A i \in DOMAIN floors :
            /\ floors[i].id \in DOMAIN floorRootsRef
            /\ i < S =>
                /\ floorRootsRef[floors[i].id].enabled
                /\ \A m \in FloorMeshes(i) : m.enabled /\ m.material.alpha = 100
            /\ i = S =>
                /\ floorRootsRef[floors[i].id].enabled
                /\ \A m \in FloorMeshes(i) :
                    /\ m.enabled
                    /\ IsExtrusion(m) => m.material.alpha <= 25
                    /\ IsSlab(m) => m.material.alpha = 100
            /\ i > S => ~floorRootsRef[floors[i].id].enabled

\* No visibility pass has touched the floors since they were built: every
\* root and mesh enabled, walls with an alpha given by the confidence regimes
\* and double-sided, slabs with the material they were created with
Untouched ==
    /\ \A id \in DOMAIN floorRootsRef : floorRootsRef[id].enabled
    /\ \A n \in DOMAIN meshes :
        /\ meshes[n].enabled
        /\ IsExtrusion(meshes[n]) =>
            /\ meshes[n].material.alpha \in {90, 75, 55}
            /\ ~meshes[n].material.backFaceCulling
        /\ IsSlab(meshes[n]) => meshes[n].material = floorMaterial

\* C4: immediately after the selected view floor changes to the floor at
\* index S, floors below S are enabled and fully opaque, floor S is enabled
\* with walls at alpha <= 0.25 and slabs at alpha 1.0, floors above S are
\* disabled (so floors hidden earlier are enabled again when S reaches them);
\* while the selection matches no floor of the model, the visibility pass
\* leaves the floors as they were built.
C4_VisibilityAfterSelection ==
    [][ (Showing' /\ selectedViewFloorId' # "") =>
            /\ (selectedViewFloorId' # selectedViewFloorId /\ SelectedIndex' # 0)
                    => VisibilityRule'
            /\ SelectedIndex' = 0 => Untouched'
      ]_vars

\* C4 witness: the selection has moved up from the first storey, selected by
\* default, to the second: the second storey is enabled again with lowered
\* wall alpha and the first is fully opaque.
C4_Witness ==
    /\ Showing /\ Settled
    /\ spatialModel = Some(ModelTwo)
    /\ selectedViewFloorId = "floor-2"
    /\ floorRootsRef["floor-1"].enabled /\ floorRootsRef["floor-2"].enabled
    /\ meshes[<<"zone_extruded_", "floor-1", "z1">>].material.alpha = 100
    /\ meshes[<<"zone_floor_", "floor-1", "z1">>].material.alpha = 100
    /\ meshes[<<"zone_extruded_", "floor-2", "z1">>].material.alpha = 25
    /\ meshes[<<"zone_floor_", "floor-2", "z1">>].material.alpha = 100

\* The alpha part of the visibility rule: walls of floor S at alpha <= 0.25,
\* every material of the floors below S at alpha 1.0
AlphaRule ==
    LET floors == FloorsOf(spatialModel)
        S == SelectedIndex
    IN  \A i \in DOMAIN floors :
            /\ i < S => \A m \in FloorMeshes(i) : m.material.alpha = 100
            /\ i = S => \A m \in FloorMeshes(i) :
                            IsExtrusion(m) => m.material.alpha <= 25

\* A render pass that recomputes the zone materials for another metric or
\* time index while the model and the selected view floor stay the same
MaterialsRecomputed ==
    /\ Showing /\ Showing'
    /\ UNCHANGED <<walls, spatialModel, selectedFloorId, selectedViewFloorId>>
    /\ selectedMetric' # selectedMetric \/ timeIndex' # timeIndex

\* C5: the visibility rule for the selected floor S keeps holding after the
\* zone materials have been recomputed for a new metric or time index (metric
\* change, slider move, live-mode tick): walls of floor S keep alpha <= 0.25
\* and the floors below S stay at alpha 1.0.
C5_AlphaKeptAfterRecolouring ==
    [][ (MaterialsRecomputed /\ SelectedIndex # 0 /\ AlphaRule) => AlphaRule' ]_vars

\* The neutral default of lines 507-508 and 652-653: Color3(0.85, 0.85, 0.8)
NeutralColor == Color3(255, 255, 240)

\* The zones of the current model that have an extrusion and no recorded
\* reading for (selectedMetric, timeIndex), as <<floor index, zone index>>
UnrecordedZones ==
    LET floors == FloorsOf(spatialModel) IN
    UNION { { <<i, k>> : k \in { j \in DOMAIN floors[i].zones :
                /\ ExtrudedName(floors[i], floors[i].zones[j]) \in DOMAIN meshes
                /\ Generates(floors[i].zones[j], selectedMetric, timeIndex, FALSE) } }
            : i \in DOMAIN floors }

\* C6: with play mode off, a zone that has no recorded reading for the
\* selected metric and time index has the neutral default colour, not a
\* colour derived from a generated reading.
C6_MissingDataNeutral ==
    (Showing /\ Settled /\ ~isPlaying) =>
        \A p \in UnrecordedZones :
            LET floor == FloorsOf(spatialModel)[p[1]]
                zone == floor.zones[p[2]]
            IN  meshes[ExtrudedName(floor, zone)].material.diffuseColor = NeutralColor

\* C10: at most one live-mode interval timer is active at any moment, and
\* the stored handle denotes the only active timer, or is null when no timer
\* is active.
C10_OneTimer ==
    /\ Cardinality(activeTimers) <= 1
    /\ activeTimers = IF playIntervalRef = 0 THEN {} ELSE {playIntervalRef}

\* C10 witness: play mode is on, its timer is the one the handle denotes and
\* has fired up to the last time index
C10_Witness ==
    /\ mounted /\ isPlaying
    /\ playIntervalRef # 0
    /\ activeTimers = {playIntervalRef}
    /\ timeIndex = MaxTimeIndex

\* C11: once play mode is off (in particular once it has been switched off
\* and the state has settled) and once the component is unmounted, no
\* live-mode timer is active, so no tick can advance the time index or
\* reassign materials until play mode is switched on again.
C11_NoTimerWhenStopped ==
    /\ (mounted /\ ~isPlaying) => (activeTimers = {} /\ playIntervalRef = 0)
    /\ ~mounted => activeTimers = {}
    /\ ~ENABLED Tick \/ (mounted /\ isPlaying)

\* C11 witness: play mode has been on long enough for the ticks to pass the
\* end of the recorded CO2 series, and is now off and settled
C11_Witness ==
    /\ mounted /\ Settled /\ ~isPlaying
    /\ spatialModel = Some(ModelTwo)
    /\ selectedMetric = "CO2"
    /\ timeIndex = MaxTimeIndex
    /\ activeTimers = {}

\* ids of the floors of the model currently rendered
CurrentFloorIds ==
    IF mounted /\ HasFloors(spatialModel)
    THEN {FloorsOf(spatialModel)[k].id : k \in DOMAIN FloorsOf(spatialModel)}
    ELSE {}

\* C12: whatever sequence of layout passes has run, the meshes, scene and
\* per-floor registries of the previous pass are gone before the next pass
\* builds: the live meshes are exactly the ones the latest pass listed, the
\* floor-root and zone-mesh registries hold exactly the floors of the model
\* now rendered, and after unmount no mesh and no scene is left.
C12_OnlyLatestPassLives ==
    /\ DOMAIN meshes = Range(floorMeshesRef) \cup Range(wallMeshesRef)
    /\ DOMAIN floorRootsRef = CurrentFloorIds
    /\ DOMAIN zoneMeshesRef = CurrentFloorIds
    /\ \A id \in DOMAIN zoneMeshesRef : Range(zoneMeshesRef[id]) \subseteq DOMAIN meshes
    /\ ~mounted => (meshes = EmptyMap /\ sceneRef # "live")
    /\ sceneRef # "live" => meshes = EmptyMap

\* a pass over the three-storey model has replaced a pass over the
\* two-storey one: the view still points at a floor of the replaced model
C12_Witness ==
    /\ mounted /\ Settled
    /\ spatialModel = Some(ModelThree)
    /\ selectedViewFloorId = "floor-2"
    /\ DOMAIN floorRootsRef = {"floor-1", "floor-3", "floor-4"}
    /\ Cardinality(DOMAIN meshes) = 4

\* number of positions of the sequence s that hold x
Occurrences(s, x) == Cardinality({i \in DOMAIN s : s[i] = x})

\* zones of a floor whose polygon has at least three points (line 477)
RenderableZones(floor) == {k \in DOMAIN floor.zones : Len(floor.zones[k].polygon2D) >= 3}

\* C13: a zone whose polygon has fewer than three points gets no mesh and
\* stops nothing; every zone with at least three points, on every floor, has
\* exactly one extrusion and one slab, each with its material, registered
\* once under its own floor; material updates leave the mesh-less zones
\* without a mesh.
C13_ShortZonesSkipped ==
    Showing =>
        \A i \in DOMAIN FloorsOf(spatialModel) :
            LET floor == FloorsOf(spatialModel)[i]
                registered == GetOrEmpty(zoneMeshesRef, floor.id)
            IN  /\ floor.id \in DOMAIN floorRootsRef
                /\ Len(registered) = 2 * Cardinality(RenderableZones(floor))
                /\ \A k \in DOMAIN floor.zones :
                    LET wallsName == ExtrudedName(floor, floor.zones[k])
                        slabName == FloorName(floor, floor.zones[k])
                    IN  IF k \in RenderableZones(floor)
                        THEN /\ {wallsName, slabName} \subseteq DOMAIN meshes
                             /\ Occurrences(registered, wallsName) = 1
                             /\ Occurrences(registered, slabName) = 1
                             /\ Occurrences(floorMeshesRef, wallsName) = 1
                             /\ Occurrences(floorMeshesRef, slabName) = 1
                             /\ meshes[wallsName].material.backFaceCulling \in BOOLEAN
                             /\ meshes[slabName].material.diffuseColor = floorMaterial.diffuseColor
                        ELSE /\ {wallsName, slabName} \cap DOMAIN meshes = {}
                             /\ {wallsName, slabName} \cap Range(registered) = {}

\* the two-storey model, whose first zone has two points, after a material
\* update for another metric: the zones after it have their meshes
C13_Witness ==
    /\ mounted /\ Settled
    /\ spatialModel = Some(ModelTwo)
    /\ selectedMetric = "TVOC"
    /\ timeIndex = 1
    /\ <<"zone_extruded_", "floor-1", "z0">> \notin DOMAIN meshes
    /\ <<"zone_extruded_", "floor-1", "z1">> \in DOMAIN meshes
    /\ <<"zone_floor_", "floor-2", "z1">> \in DOMAIN meshes

\* C14: the extrusion of a zone is as high as the zone's heightOverride
\* whenever the zone has one, whatever number it holds (0 included), and as
\* high as its floor's defaultHeight only when it has none; the override of
\* one zone changes no other zone's height.
C14_OverrideWheneverPresent ==
    spc = "built" =>
        \A i \in DOMAIN stFloors : \A k \in DOMAIN stFloors[i].zones :
            LET zone == stFloors[i].zones[k]
                expected == IF zone.heightOverride = Absent
                            THEN stFloors[i].defaultHeight
                            ELSE zone.heightOverride[1]
            IN  \A m \in MeshesOfFloor(stMeshes, i) :
                    m.name = ExtrudedName(stFloors[i], zone) => m.yMax - m.yMin = expected

\* horizontal positions of all vertices the pass generated
GeneratedPoints ==
    UNION { { [x |-> geoMeshes[m].vertices[j].x, z |-> geoMeshes[m].vertices[j].z]
              : j \in DOMAIN geoMeshes[m].vertices }
            : m \in DOMAIN geoMeshes }

\* C15: in every pass that builds zone geometry the offset is minus the
\* scaled centre of the bounding box of all floors' zone polygons, and the
\* horizontal bounding box of the generated vertices is centred on x = 0,
\* z = 0, with or without wall segments supplied alongside the model.
C15_CentredOnOrigin ==
    (gpc = "built" /\ geoMeshes # <<>>) =>
        LET pixels == ZonePixels(geoFloors)
            xs == {p.x : p \in GeneratedPoints}
            zs == {p.z : p \in GeneratedPoints}
        IN  /\ geoOffset.x = 0 - SCALE((SetMin({p.x : p \in pixels}) + SetMax({p.x : p \in pixels})) \div 2)
            /\ geoOffset.z = 0 - SCALE((SetMin({p.y : p \in pixels}) + SetMax({p.y : p \in pixels})) \div 2)
            /\ SetMin(xs) + SetMax(xs) = 0
            /\ SetMin(zs) + SetMax(zs) = 0

\* C16: maxDim is max(width, height) of the bounds scaled to world units,
\* and never less than 20 world units
C16_MaxDimAtLeast20 ==
    gpc \in {"framed", "built"} =>
        geoMaxDim = Max(SCALE(Max(geoBounds.maxX - geoBounds.minX,
                                  geoBounds.maxY - geoBounds.minY)), 200)

\* the undirected edges of a triangle
EdgesOf(triangle) ==
    { {triangle[1], triangle[2]}, {triangle[2], triangle[3]}, {triangle[3], triangle[1]} }

\* 2n vertices, 4n-4 triangles over existing vertices, every undirected edge
\* in exactly two triangles, and V - E + F = 2
ClosedPrism(n, vertices, indices) ==
    LET edges == UNION { EdgesOf(indices[t]) : t \in DOMAIN indices } IN
    /\ Len(vertices) = 2 * n
    /\ Len(indices) = 4 * n - 4
    /\ \A t \in DOMAIN indices : \A c \in 1..3 : indices[t][c] \in 0..(Len(vertices) - 1)
    /\ \A t \in DOMAIN indices : Cardinality(EdgesOf(indices[t])) = 3
    /\ \A e \in edges : Cardinality({t \in DOMAIN indices : e \in EdgesOf(indices[t])}) = 2
    /\ Len(vertices) - Cardinality(edges) + Len(indices) = 2

\* doubled world heights of the vertices of a mesh
WorldHeights(mesh) == { mesh.positionY2 + mesh.vertices[j].y2 : j \in DOMAIN mesh.vertices }

\* C18: for every polygon of n >= 3 points the extrusion (outward and inward
\* facing) and the slab are closed prisms of 2n vertices and 4n-4 triangles,
\* every edge in exactly two triangles, V - E + F = 2; the extrusion's
\* vertices are at heights E and E+H, the slab's at E and E+0.1.
C18_ClosedPrisms ==
    gpc = "built" =>
        \A i \in DOMAIN geoFloors : \A k \in DOMAIN geoFloors[i].zones :
            LET zone == geoFloors[i].zones[k]
                n == Len(zone.polygon2D)
                E == StackElevations(geoFloors, Len(geoFloors))[i]
                H == geoFloors[i].defaultHeight
            IN  n >= 3 =>
                  \E a \in DOMAIN geoMeshes : \E b \in DOMAIN geoMeshes :
                    /\ geoMeshes[a].name = ExtrudedName(geoFloors[i], zone)
                    /\ geoMeshes[b].name = FloorName(geoFloors[i], zone)
                    /\ ClosedPrism(n, geoMeshes[a].vertices, geoMeshes[a].indices)
                    /\ ClosedPrism(n, geoMeshes[a].vertices, geoMeshes[a].inwardIndices)
                    /\ ClosedPrism(n, geoMeshes[b].vertices, geoMeshes[b].indices)
                    /\ WorldHeights(geoMeshes[a]) = {2 * E, 2 * (E + H)}
                    /\ WorldHeights(geoMeshes[b]) = {2 * E, 2 * (E + FLOOR_THICKNESS)}

\* a triangle and a pentagon extruded in the same pass, on stacked floors
C18_Witness ==
    /\ gpc = "built"
    /\ Len(geoFloors) = 2
    /\ Len(geoMeshes) = 4
    /\ Len(geoMeshes[1].vertices) = 6
    /\ Len(geoMeshes[1].indices) = 8
    /\ Len(geoMeshes[3].vertices) = 2 * MaxPoints
    /\ geoMeshes[3].positionY2 = 2 * 29 + 28

\* names of the zone meshes a pass over the model creates
ZoneMeshNames(model) ==
    UNION { UNION { { ExtrudedName(FloorsOf(model)[i], FloorsOf(model)[i].zones[k]),
                      FloorName(FloorsOf(model)[i], FloorsOf(model)[i].zones[k]) }
                    : k \in RenderableZones(FloorsOf(model)[i]) }
            : i \in DOMAIN FloorsOf(model) }

\* C17: while the model has at least one floor the geometry is the zones'
\* and no wall mesh exists, whatever walls are supplied; wall boxes exist
\* only when the model is absent or has no floor and walls are supplied, one
\* box per wall; with neither, nothing is built.
C17_ModelBeforeWalls ==
    mounted =>
        LET wallBoxes == {n \in DOMAIN meshes : n[1] = "wall_"}
            zoneMeshes == {n \in DOMAIN meshes : n[1] \in {"zone_extruded_", "zone_floor_"}}
        IN  IF HasFloors(spatialModel)
            THEN /\ wallBoxes = {} /\ wallMeshesRef = <<>>
                 /\ zoneMeshes = ZoneMeshNames(spatialModel)
                 /\ sceneRef = "live"
            ELSE IF Len(walls) > 0
            THEN /\ zoneMeshes = {}
                 /\ wallBoxes = {WallName(i) : i \in DOMAIN walls}
                 /\ Range(wallMeshesRef) = wallBoxes
                 /\ Len(wallMeshesRef) = Len(walls)
                 /\ sceneRef = "live"
            ELSE /\ meshes = EmptyMap
                 /\ sceneRef # "live"

\* walls and a model with floors supplied together: zone meshes only
C17_Witness ==
    /\ mounted /\ Settled
    /\ Len(walls) > 0
    /\ spatialModel = Some(ModelTwo)
    /\ <<"zone_extruded_", "floor-2", "z1">> \in DOMAIN meshes
    /\ wallMeshesRef = <<>>

\* a mesh without its enabled flag, material alpha and back-face culling
GeometryAndColour(mesh) ==
    [ name |-> mesh.name, yMin |-> mesh.yMin, yMax |-> mesh.yMax,
      diffuseColor |-> mesh.material.diffuseColor,
      emissiveColor |-> mesh.material.emissiveColor ]

\* C19: a step of the mounted component that changes the selected view
\* floor creates and disposes no mesh and leaves vertex data, colours, floor
\* roots, mesh registries, scene, props, selected metric, time index and
\* play flag as they were; only enabled flags, alpha and back-face culling
\* may differ.
C19_SelectionRebuildsNothing ==
    [][ (mounted /\ mounted' /\ selectedViewFloorId' # selectedViewFloorId) =>
            /\ DOMAIN meshes' = DOMAIN meshes
            /\ \A n \in DOMAIN meshes :
                    GeometryAndColour(meshes'[n]) = GeometryAndColour(meshes[n])
            /\ DOMAIN floorRootsRef' = DOMAIN floorRootsRef
            /\ UNCHANGED <<zoneMeshesRef, floorMeshesRef, wallMeshesRef, sceneRef,
                           layoutCleanup, walls, spatialModel, selectedFloorId,
                           selectedMetric, timeIndex, isPlaying,
                           playIntervalRef, activeTimers>>
      ]_vars

\* the top storey of the three-storey model selected while playing TVOC at
\* instant 1: nothing but the flags of its meshes changed
C19_Witness ==
    /\ Showing /\ Settled
    /\ spatialModel = Some(ModelThree)
    /\ selectedViewFloorId = "floor-4"
    /\ selectedMetric = "TVOC"
    /\ timeIndex = 1
    /\ isPlaying
    /\ meshes[<<"zone_extruded_", "floor-4", "z1">>].material.alpha = 25

\* C20: for a metric name with no entry in the threshold table the lookup
\* yields the CO2 thresholds, so the band of any value is the band CO2 gives
\* the same value.
C20_UnknownMetricUsesCO2 ==
    (cpc = "classified" /\ rdMetric \notin DOMAIN METRIC_THRESHOLDS) =>
        /\ rdThresholds = METRIC_THRESHOLDS.CO2
        /\ rdColor = getStateColor("CO2", rdValue)

\* C21: with no wall and no zone polygon point the bounds are the fallback
\* box (0,0,0,0), the centre offset is (0,0) and the horizontal extent is
\* 20 world units, both as the functions compute them and as a pass that
\* gets as far as the framing stores them.
C21_EmptyInputFallback ==
    (gpc # "idle" /\ Len(geoWalls) = 0 /\ ZonePixels(geoFloors) = {}) =>
        LET bounds == layoutBounds(geoWalls, Some([floors |-> geoFloors])) IN
        /\ calculateBounds(geoWalls) = NoBounds
        /\ bounds = NoBounds
        /\ layoutOffset(bounds) = [x |-> 0, z |-> 0]
        /\ layoutMaxDim(bounds) = 200
        /\ gpc \in {"framed", "built"} =>
            /\ geoBounds = NoBounds
            /\ geoOffset = [x |-> 0, z |-> 0]
            /\ geoMaxDim = 200

\* a model of two floors, one without zones and one whose zone has no
\* point, framed without walls
C21_Witness ==
    /\ gpc = "framed"
    /\ geoWalls = <<>>
    /\ Len(geoFloors) = 2
    /\ geoFloors[1].zones = <<>>
    /\ Len(geoFloors[2].zones) = 1
    /\ geoFloors[2].zones[1].polygon2D = <<>>
    /\ geoMaxDim = 200

\* C22: after any sequence of material updates of the same zone, the
\* emissive "uncertain" marker is on the material exactly when the reading
\* applied last has a confidence below 0.6.
C22_MarkerFollowsLastConfidence ==
    cpc = "applied" =>
        (rdMaterial.emissiveColor = Color3(90, 90, 90) <=> rdConfidence < 60)

\* C23: whenever play mode is on in a settled state a live-mode timer is
\* active and is the one the component holds, so a tick stays possible for
\* as long as play mode is on, also after a re-layout during play mode.
C23_PlayingHasTimer ==
    (mounted /\ Settled /\ isPlaying) =>
        /\ activeTimers # {}
        /\ playIntervalRef \in activeTimers

\* floors above the selected one are disabled and the walls of the selected
\* one have an alpha of at most 0.25
AboveHiddenSelectedOpen ==
    LET floors == FloorsOf(spatialModel) IN
    \A i \in DOMAIN floors :
        /\ floors[i].id \in DOMAIN floorRootsRef
        /\ i > SelectedIndex => ~floorRootsRef[floors[i].id].enabled
        /\ i = SelectedIndex =>
            \A m \in FloorMeshes(i) : IsExtrusion(m) => m.material.alpha <= 25

\* C24: after every layout pass on a model in which a view floor S is
\* selected, also one triggered by a new wall list or selected-floor prop
\* while S and the model stay the same, the floors above S are disabled and
\* the walls of floor S have lowered alpha.
C24_RelayoutKeepsVisibility ==
    [][ ( /\ mounted /\ Showing' /\ Settled'
          /\ SelectedIndex' # 0
          /\ \/ walls' # walls
             \/ selectedFloorId' # selectedFloorId
             \/ spatialModel' # spatialModel )
        => AboveHiddenSelectedOpen' ]_vars

\* value={Math.min(timeIndex, maxIndex)} of the time slider, line 864
sliderValue == Min(timeIndex, MaxIndex(spatialModel, selectedMetric))

\* C25: whenever play mode is off in a settled state, the time index that
\* colours the zones is within [0, maxIndex] of the selected metric and is
\* the index the time slider displays.
C25_StoppedIndexInRange ==
    (Showing /\ Settled /\ ~isPlaying) =>
        /\ 0 <= timeIndex
        /\ timeIndex <= MaxIndex(spatialModel, selectedMetric)
        /\ timeIndex = sliderValue

\* C26: the building height that frames the camera is the effective
\* elevation the placement loop gave the top floor + 0.1 + the top floor's
\* defaultHeight (the two stacking loops agree on every floor), 3 when there
\* is no floor, and the camera target is at half that height above the
\* origin.
C26_TotalHeightAgrees ==
    spc = "built" =>
        /\ \A i \in DOMAIN stFloors : cumulativeElevationAt(stFloors, i) = stElevations[i]
        /\ Len(stFloors) > 0 =>
            stTotalHeight = stElevations[Len(stFloors)] + FLOOR_THICKNESS
                            + stFloors[Len(stFloors)].defaultHeight
        /\ Len(stFloors) = 0 => stTotalHeight = 30
        /\ stCamera = [x |-> 0, y2 |-> stTotalHeight, z |-> 0]

\* three floors of which the last is raised by the stacking above its
\* nominal elevation
C26_Witness ==
    /\ spc = "built"
    /\ Len(stFloors) = 3
    /\ stFloors[3].elevation = 0
    /\ stElevations[3] > 0
    /\ stTotalHeight = stElevations[3] + 1 + stFloors[3].defaultHeight
    /\ stCamera.y2 = stTotalHeight

\* the directed edges of a triangle, in its winding order
DirectedEdgesOf(triangle) ==
    { <<triangle[1], triangle[2]>>, <<triangle[2], triangle[3]>>, <<triangle[3], triangle[1]>> }

\* every directed edge is in exactly one triangle, so two triangles sharing
\* an edge traverse it in opposite directions
ConsistentWinding(indices) ==
    \A t \in DOMAIN indices : \A e \in DirectedEdgesOf(indices[t]) :
        /\ Cardinality({u \in DOMAIN indices : e \in DirectedEdgesOf(indices[u])}) = 1
        /\ \E u \in DOMAIN indices : <<e[2], e[1]>> \in DirectedEdgesOf(indices[u])

\* C27: in the outward-facing extrusion and in the slab of every polygon
\* of n >= 3 points the winding is consistent over the whole solid: each
\* directed edge occurs in exactly one triangle.
C27_ConsistentWinding ==
    gpc = "built" =>
        \A m \in DOMAIN geoMeshes : ConsistentWinding(geoMeshes[m].indices)

\* C27 holds of the slab alone
C27_SlabWindingConsistent ==
    gpc = "built" =>
        \A m \in DOMAIN geoMeshes :
            geoMeshes[m].name[1] = "zone_floor_" => ConsistentWinding(geoMeshes[m].indices)

\* C27 holds of the inward-facing extrusion
C27_InwardWindingConsistent ==
    gpc = "built" =>
        \A m \in DOMAIN geoMeshes : ConsistentWinding(geoMeshes[m].inwardIndices)

\* the same three vertices in the opposite cyclic order
ReversedWinding(t, u) ==
    u \in { <<t[1], t[3], t[2]>>, <<t[3], t[2], t[1]>>, <<t[2], t[1], t[3]>> }

\* C28: the outward-facing and the inward-facing extrusion of a zone have
\* the same vertex positions, the same texture coordinates and the same
\* cap triangles, and each side triangle of one is the side triangle at the
\* same place of the other, with reversed winding.
C28_VariantsDifferBySideWinding ==
    gpc = "built" =>
        \A m \in DOMAIN geoMeshes :
            geoMeshes[m].name[1] = "zone_extruded_" =>
                LET mesh      == geoMeshes[m]
                    numPoints == Len(mesh.vertices) \div 2
                    caps      == 2 * (numPoints - 2)
                IN  /\ mesh.vertices = mesh.inwardVertices
                    /\ mesh.uvs = mesh.inwardUvs
                    /\ Len(mesh.indices) = Len(mesh.inwardIndices)
                    /\ Len(mesh.indices) = caps + 2 * numPoints
                    /\ \A k \in 1..caps : mesh.indices[k] = mesh.inwardIndices[k]
                    /\ \A k \in (caps + 1)..Len(mesh.indices) :
                           ReversedWinding(mesh.indices[k], mesh.inwardIndices[k])

\* a pentagon has been extruded: six cap triangles and ten side triangles
C28_Witness ==
    /\ gpc = "built"
    /\ \E m \in DOMAIN geoMeshes :
           /\ geoMeshes[m].name[1] = "zone_extruded_"
           /\ Len(geoMeshes[m].vertices) = 2 * MaxPoints
           /\ Len(geoMeshes[m].inwardIndices) = 2 * (MaxPoints - 2) + 2 * MaxPoints

\* C29: once the selection queued by a layout pass has been applied, the
\* selected view floor identifies a floor of the model on display, whatever
\* floor selections and model replacements came before, so the visibility
\* pass finds its index instead of returning early.
C29_ViewFloorInCurrentModel ==
    (Showing /\ Settled) => SelectedIndex \in DOMAIN FloorsOf(spatialModel)

\* C29 holds of the first pass: with no floor selected yet, the layout pass
\* over a model with floors queues the selection of its first floor
C29_FirstPassSelectsFloorZero ==
    (Showing /\ selectedViewFloorId = "") =>
        pendingView = Some(FloorsOf(spatialModel)[1].id)

\* squared length of the wall between its scaled end points
ScaledLengthSq(wall) ==
    (SCALE(wall.end.x) - SCALE(wall.start.x)) * (SCALE(wall.end.x) - SCALE(wall.start.x))
    + (SCALE(wall.end.y) - SCALE(wall.start.y)) * (SCALE(wall.end.y) - SCALE(wall.start.y))

\* C30: in the wall branch every wall of the list yields exactly one solid,
\* and none of zero volume: a wall whose scaled length is below 0.001
\* yields the cube of size 0.1, and a longer wall yields a box as wide as
\* the wall is long, centred in the plan on the middle of the wall, with
\* its base on the slab level floorElevation + FLOOR_THICKNESS.
C30_OneSolidPerWall ==
    gpc = "walled" =>
        /\ Len(geoMeshes) = Len(geoWalls)
        /\ \A i \in DOMAIN geoWalls :
            LET solid == geoMeshes[i]
                wall  == geoWalls[i]
            IN  /\ solid.name = WallName(i)
                /\ solid.widthSq > 0 /\ solid.height > 0 /\ solid.depth > 0
                /\ ScaledLengthSq(wall) * 10000 < 1 =>
                       /\ solid.widthSq = 1 /\ solid.height = 1 /\ solid.depth = 1
                /\ ScaledLengthSq(wall) * 10000 >= 1 =>
                       /\ solid.widthSq = ScaledLengthSq(wall)
                       /\ solid.positionX2 = SCALE(wall.start.x) + SCALE(wall.end.x)
                       /\ solid.positionZ2 = SCALE(wall.start.y) + SCALE(wall.end.y)
                       /\ solid.positionY2 - solid.height = 2 * (0 + FLOOR_THICKNESS)

\* the wall of zero length has yielded the cube
C30_Witness ==
    /\ gpc = "walled"
    /\ \E i \in DOMAIN geoWalls :
           /\ geoWalls[i].start = geoWalls[i].end
           /\ geoMeshes[i].widthSq = 1

\* the two walls of the L-shaped plan have yielded their boxes
C30_WitnessBoxes ==
    /\ gpc = "walled"
    /\ Len(geoMeshes) = 2
    /\ \A i \in DOMAIN geoMeshes : geoMeshes[i].widthSq > 1

============================================================================
